---------------------------- MODULE Spec2Model ----------------------------
(***************************************************************************)
(* A model of the Y86-64 simulation engine of src/src/lib/y86/cpu.ts:      *)
(* the object-code loader (parseYoProgram), the interpreter                *)
(* (executeInstruction), the run driver (simulateYoProgram) and the        *)
(* session controller (class Y86CPU).                                      *)
(*                                                                         *)
(* Representation.                                                         *)
(*  - A bigint is a little-endian sequence of BigBytes bytes in two's      *)
(*    complement.  BigBytes is one byte wider than a 64-bit word, so the   *)
(*    sum, difference or negation of two 64-bit values is exact before     *)
(*    BigInt.asIntN(64, .) truncates it.                                   *)
(*  - A Uint8Array(MEMORY_SIZE) is a function from the addresses that hold *)
(*    a non-zero byte to that byte; every other address reads as 0.        *)
(*  - The decimal text of a bigint (x.toString(), BigInt(text)) is a       *)
(*    record of a sign and a magnitude; the magnitude keeps base 256.      *)
(*  - The append-only outputs that no engine method reads back (logs, the  *)
(*    hex-string history filled by saveSnapshot) are left out.             *)
(*  - A method of Y86CPU is an operator from the object before the call to *)
(*    the object after it (and the value returned); Let(e, F) stands for a *)
(*    const declaration, whose value is computed once.                     *)
(*                                                                         *)
(* Specifications.                                                         *)
(*  - Spec: every public method of a session, called in any order.         *)
(*  - SpecReplay: load, step, reset and restore over all the sample texts, *)
(*    with no breakpoint.                                                  *)
(*  - SpecBreak: breakpoints with every sample condition added, removed    *)
(*    and toggled between steps.                                           *)
(*  - SpecRun: a run from load to the end of the trace with breakpoints    *)
(*    set beforehand, stepped while advancing and continued after a hit.   *)
(*  - SpecExec: the while loop of simulateYoProgram, one instruction at a  *)
(*    time, from sample programs, register values and flags.               *)
(*  - SpecTimer: the handlers of the page SimulatorPage.tsx and the ticks  *)
(*    of the intervals its run handler starts, in any order.               *)
(*  - SpecLoads: calls of loadProgram that overlap, each resuming after   *)
(*    its await in the order of the calls.                                 *)
(***************************************************************************)
EXTENDS Integers, Sequences, FiniteSets, TLC

\* ------------------------------------------------------------ constants

MEMORY_SIZE == 32768

\* The source sets 10000; the model runs the same loop with a small bound.
MAX_SIMULATION_STEPS == 3

\* Bytes of the model's bigint: 8 for the 64-bit word, the rest headroom.
BigBytes == 9

AOK == 1
HLT == 2
ADR == 3
INS == 4

HALT == 0
NOP == 1
RRMOVQ == 2
IRMOVQ == 3
RMMOVQ == 4
MRMOVQ == 5
OPQ == 6
JXX == 7
CALL == 8
RET == 9
PUSHQ == 10
POPQ == 11

ALU_ADD == 0
ALU_SUB == 1
ALU_AND == 2
ALU_XOR == 3

CC_YES == 0
CC_LE == 1
CC_L == 2
CC_E == 3
CC_NE == 4
CC_GE == 5
CC_G == 6

STATUS_MAP(n) == IF n \in {AOK, HLT, ADR, INS} THEN n ELSE AOK

REGISTER_KEYS ==
  << "rax", "rcx", "rdx", "rbx", "rsp", "rbp", "rsi", "rdi",
     "r8", "r9", "r10", "r11", "r12", "r13", "r14" >>

RegisterSet == { REGISTER_KEYS[i] : i \in 1..Len(REGISTER_KEYS) }

\* REGISTER_NAMES[id] ?? null; "" stands for null.
getRegisterName(id) == IF id \in 0..14 THEN REGISTER_KEYS[id + 1] ELSE ""

\* ------------------------------------------------------------ bigint

BigIdx == 1..BigBytes

ZeroBig == [i \in BigIdx |-> 0]

\* BigInt(n) for a number 0 <= n < 2^31.
NatToBig(n) ==
  [i \in BigIdx |->
     IF i = 1 THEN n % 256
     ELSE IF i = 2 THEN (n \div 256) % 256
     ELSE IF i = 3 THEN (n \div 65536) % 256
     ELSE IF i = 4 THEN (n \div 16777216) % 256
     ELSE 0]

RECURSIVE AddFrom(_, _, _, _)
AddFrom(a, b, c, i) ==
  IF i > BigBytes THEN << >>
  ELSE LET s == a[i] + b[i] + c
       IN  << s % 256 >> \o AddFrom(a, b, s \div 256, i + 1)

NotBig(a) == [i \in BigIdx |-> 255 - a[i]]

\* a + b, -a, a - b on bigints.
AddBig(a, b) == AddFrom(a, b, 0, 1)
NegBig(a) == AddFrom(NotBig(a), ZeroBig, 1, 1)
SubBig(a, b) == AddFrom(a, NotBig(b), 1, 1)

\* x < 0n
IsNegBig(a) == a[BigBytes] >= 128

RECURSIVE UnsignedLess(_, _, _)
UnsignedLess(a, b, i) ==
  IF i = 0 THEN FALSE
  ELSE IF a[i] # b[i] THEN a[i] < b[i]
  ELSE UnsignedLess(a, b, i - 1)

\* a < b on bigints.
LessBig(a, b) ==
  IF IsNegBig(a) # IsNegBig(b) THEN IsNegBig(a)
  ELSE UnsignedLess(a, b, BigBytes)

\* BigInt.asIntN(64, x) and BigInt.asUintN(64, x).
asIntN64(a) ==
  [i \in BigIdx |-> IF i <= 8 THEN a[i] ELSE IF a[8] >= 128 THEN 255 ELSE 0]
asUintN64(a) == [i \in BigIdx |-> IF i <= 8 THEN a[i] ELSE 0]

\* A faulty normalize64 that keeps the bits above bit 63; the range
\* property C34 must tell it from normalize64.
normalize64Keeping(value) == value

normalize64(value) == asIntN64(value)
toInt64(value) == asIntN64(value)
add64(a, b) == asIntN64(AddBig(a, b))

\* A faulty a ^ b that carries from bit to bit; the bitwise property C20
\* must tell it from XorBig.
XorBigWithCarry(a, b) == AddBig(a, b)

RECURSIVE BitOp(_, _, _, _)
BitOp(op, x, y, k) ==
  IF k = 0 THEN 0
  ELSE LET bx == x % 2
           by == y % 2
           r  == IF op = "and" THEN bx * by ELSE (bx + by) % 2
       IN  r + 2 * BitOp(op, x \div 2, y \div 2, k - 1)

\* a & b and a ^ b on bigints.
AndBig(a, b) == [i \in BigIdx |-> BitOp("and", a[i], b[i], 8)]
XorBig(a, b) == [i \in BigIdx |-> BitOp("xor", a[i], b[i], 8)]

\* Number(x) lies in [0, MEMORY_SIZE): the test of bigIntToNumber and
\* toAddressNumber, and the number itself when it passes.
InMemoryRange(a) ==
  /\ \A i \in BigIdx : i >= 3 => a[i] = 0
  /\ a[1] + 256 * a[2] < MEMORY_SIZE
BigToNat(a) == a[1] + 256 * a[2]

\* A const declaration: F applied to the value of e, computed once.
Let(e, F(_)) == CHOOSE y \in { F(x) : x \in { e } } : TRUE

\* ------------------------------------------------------------ memory

EmptyMemory == [a \in {} |-> 0]

MemRead(memory, a) == IF a \in DOMAIN memory THEN memory[a] ELSE 0

\* memory[address + i] = bytes[i + 1] for the 8 bytes of a word.
MemWrite8(memory, address, bytes) ==
  LET range == address .. (address + 7)
      keep  == (DOMAIN memory) \ range
      set   == { a \in range : bytes[a - address + 1] # 0 }
  IN  [a \in keep \cup set |->
         IF a \in range THEN bytes[a - address + 1] ELSE memory[a]]

MemWrite1(memory, address, value) ==
  LET keep == (DOMAIN memory) \ {address}
      set  == IF value # 0 THEN {address} ELSE {}
  IN  [a \in keep \cup set |-> IF a = address THEN value ELSE memory[a]]

\* The unsigned value of the 8 bytes at address.
Word8(memory, address) ==
  [i \in BigIdx |-> IF i <= 8 THEN MemRead(memory, address + i - 1) ELSE 0]

markMemoryRangeDirty(dirtyWords, start, length) ==
  IF length <= 0 THEN dirtyWords
  ELSE LET firstBase == (start \div 8) * 8
           lastByte  == start + length - 1
           lastBase  == (lastByte \div 8) * 8
       IN  dirtyWords \cup
             { addr \in firstBase .. lastBase :
                 addr % 8 = 0 /\ addr < MEMORY_SIZE }

\* ------------------------------------------------------------ loader

\* parseInt(text, 16) of a run of hexadecimal digits (each 0..15).
RECURSIVE HexValue(_)
HexValue(digits) ==
  IF digits = << >> THEN 0
  ELSE 16 * HexValue(SubSeq(digits, 1, Len(digits) - 1)) + digits[Len(digits)]

\* The bytes of one record: bytes.slice(i, i + 2) for i = 0, 2, ...; a last
\* odd digit is a byte of its own.
RecordBytes(digits) ==
  [j \in 1 .. ((Len(digits) + 1) \div 2) |->
     HexValue(SubSeq(digits, 2 * j - 1,
                     IF 2 * j <= Len(digits) THEN 2 * j ELSE 2 * j - 1))]

RECURSIVE StoreBytes(_, _, _, _)
StoreBytes(memory, address, bytes, j) ==
  IF j > Len(bytes) THEN memory
  ELSE StoreBytes(MemWrite1(memory, address + j - 1, bytes[j]),
                  address, bytes, j + 1)

\* A faulty loader whose entry point is the address of the first record;
\* the loading property C23 must tell it from ParseLines.
RECURSIVE ParseLinesFirstAddress(_, _, _)
ParseLinesFirstAddress(lines, k, acc) ==
  IF k > Len(lines) \/ acc.thrown THEN acc
  ELSE LET line == lines[k]
       IN  IF line.runs = << >> \/ line.address = << >>
           THEN ParseLinesFirstAddress(lines, k + 1, acc)
           ELSE LET address == HexValue(line.address)
                    bytes   == RecordBytes(line.runs[1])
                    last    == address + Len(bytes) - 1
                IN  IF address < 0 \/ address >= MEMORY_SIZE
                       \/ last >= MEMORY_SIZE
                    THEN [acc EXCEPT !.thrown = TRUE]
                    ELSE Let([thrown     |-> FALSE,
                              memory     |-> StoreBytes(acc.memory, address,
                                                        bytes, 1),
                              dirtyWords |-> markMemoryRangeDirty(
                                               acc.dirtyWords, address,
                                               Len(bytes)),
                              entryPoint |-> IF acc.entryPoint = -1
                                             THEN address
                                             ELSE acc.entryPoint],
                             LAMBDA next :
                               ParseLinesFirstAddress(lines, k + 1, next))

\* A line of the text is a record [address, runs]: the hexadecimal digits
\* after 0x, and the runs of hexadecimal digits after the colon, which
\* white space separates.  A line the pattern does not match (blank, a
\* comment, no digit after the colon) has no runs.  The pattern's second
\* group takes the first run.
RECURSIVE ParseLines(_, _, _)
ParseLines(lines, k, acc) ==
  IF k > Len(lines) \/ acc.thrown THEN acc
  ELSE LET line == lines[k]
       IN  IF line.runs = << >> \/ line.address = << >>
           THEN ParseLines(lines, k + 1, acc)
           ELSE LET address == HexValue(line.address)
                    bytes   == RecordBytes(line.runs[1])
                    last    == address + Len(bytes) - 1
                IN  IF address < 0 \/ address >= MEMORY_SIZE
                       \/ last >= MEMORY_SIZE
                    THEN [acc EXCEPT !.thrown = TRUE]
                    ELSE Let([thrown     |-> FALSE,
                              memory     |-> StoreBytes(acc.memory, address,
                                                        bytes, 1),
                              dirtyWords |-> markMemoryRangeDirty(
                                               acc.dirtyWords, address,
                                               Len(bytes)),
                              entryPoint |-> IF acc.entryPoint = -1
                                             THEN address
                                             ELSE IF address < acc.entryPoint
                                                  THEN address
                                                  ELSE acc.entryPoint],
                             LAMBDA next : ParseLines(lines, k + 1, next))

\* entryPoint -1 stands for null while parsing; the result has
\* entryPoint ?? 0.
parseYoProgram(content) ==
  Let(ParseLines(content, 1,
                 [thrown |-> FALSE, memory |-> EmptyMemory,
                  dirtyWords |-> {}, entryPoint |-> -1]),
      LAMBDA r :
        [r EXCEPT !.entryPoint = IF r.entryPoint = -1 THEN 0
                                 ELSE r.entryPoint])

\* ------------------------------------------------------------ interpreter

\* A faulty bounds test of the 8-byte accesses that looks at the first byte
\* only; the bounds property C14 must tell it from readQuadOK.
readQuadOKFirstByte(address) == address >= 0 /\ address < MEMORY_SIZE

readByteOK(address) == address >= 0 /\ address < MEMORY_SIZE
readQuadOK(address) == address >= 0 /\ address + 7 < MEMORY_SIZE

readByte(memory, address) == MemRead(memory, address)
readSignedQuad(memory, address) == asIntN64(Word8(memory, address))
readUnsignedQuad(memory, address) == asUintN64(Word8(memory, address))

\* writeQuad past its bounds test.
writeQuad(memory, address, rawValue) ==
  MemWrite8(memory, address, asUintN64(rawValue))

decodeRegisters(regByte) ==
  [rA |-> (regByte \div 16) % 16, rB |-> regByte % 16]

\* A faulty detectAddOverflow that misses the overflow of two negative
\* operands; the addq property C11 must tell it from detectAddOverflow.
detectAddOverflowOfPositives(a, b, result) ==
  ~IsNegBig(a) /\ ~IsNegBig(b) /\ IsNegBig(result)

detectAddOverflow(a, b, result) ==
  LET aNeg   == IsNegBig(a)
      bNeg   == IsNegBig(b)
      resNeg == IsNegBig(result)
  IN  (aNeg = bNeg) /\ (resNeg # aNeg)

\* A faulty evaluateCondition whose "less or equal" forgets ZF; the
\* condition property C19 must tell it from evaluateCondition.
evaluateConditionWithoutEqual(code, flags) ==
  IF code = CC_YES THEN TRUE
  ELSE IF code = CC_LE THEN flags.SF # flags.OF
  ELSE IF code = CC_L THEN flags.SF # flags.OF
  ELSE IF code = CC_E THEN flags.ZF
  ELSE IF code = CC_NE THEN ~flags.ZF
  ELSE IF code = CC_GE THEN flags.SF = flags.OF
  ELSE IF code = CC_G THEN ~flags.ZF /\ (flags.SF = flags.OF)
  ELSE FALSE

evaluateCondition(code, flags) ==
  IF code = CC_YES THEN TRUE
  ELSE IF code = CC_LE THEN (flags.SF # flags.OF) \/ flags.ZF
  ELSE IF code = CC_L THEN flags.SF # flags.OF
  ELSE IF code = CC_E THEN flags.ZF
  ELSE IF code = CC_NE THEN ~flags.ZF
  ELSE IF code = CC_GE THEN flags.SF = flags.OF
  ELSE IF code = CC_G THEN ~flags.ZF /\ (flags.SF = flags.OF)
  ELSE FALSE

\* The outcome of one call of executeInstruction: the state as the call
\* left it, the dirty words, and err, the status of the Y86RuntimeError it
\* threw (0: it returned).
Return(state, dirty) == [state |-> state, dirty |-> dirty, err |-> 0]
Throw(state, dirty, status) ==
  [state |-> state, dirty |-> dirty, err |-> status]

\* The register byte at pc + 1, decoded; ok is false where readByte throws.
RegByte(state) ==
  [ok |-> readByteOK(state.pc + 1),
   r  |-> decodeRegisters(readByte(state.memory, state.pc + 1))]

ExecRRMOVQ(state, dirty, ifun) ==
  LET pc == state.pc
      rb == RegByte(state)
      src == getRegisterName(rb.r.rA)
      dst == getRegisterName(rb.r.rB)
  IN  IF ~rb.ok THEN Throw(state, dirty, ADR)
      ELSE IF src = "" \/ dst = "" THEN Throw(state, dirty, INS)
      ELSE LET regs ==
                 IF ifun = CC_YES \/ evaluateCondition(ifun, state.conditionCodes)
                 THEN [state.registers EXCEPT ![dst] = state.registers[src]]
                 ELSE state.registers
           IN  Return([state EXCEPT !.registers = regs, !.pc = pc + 2], dirty)

\* A faulty irmovq that sets the flags from the immediate; the flag
\* property C29 must tell it from ExecIRMOVQ.
ExecIRMOVQSettingFlags(state, dirty) ==
  LET pc == state.pc
      rb == RegByte(state)
      dst == getRegisterName(rb.r.rB)
  IN  IF ~rb.ok THEN Throw(state, dirty, ADR)
      ELSE IF dst = "" THEN Throw(state, dirty, INS)
      ELSE IF ~readQuadOK(pc + 2) THEN Throw(state, dirty, ADR)
      ELSE LET immediate == normalize64(readSignedQuad(state.memory, pc + 2))
           IN  Return([state EXCEPT
                         !.registers[dst] = immediate,
                         !.conditionCodes =
                            [ZF |-> immediate = ZeroBig,
                             SF |-> IsNegBig(immediate),
                             OF |-> FALSE],
                         !.pc = pc + 10], dirty)

ExecIRMOVQ(state, dirty) ==
  LET pc == state.pc
      rb == RegByte(state)
      dst == getRegisterName(rb.r.rB)
  IN  IF ~rb.ok THEN Throw(state, dirty, ADR)
      ELSE IF dst = "" THEN Throw(state, dirty, INS)
      ELSE IF ~readQuadOK(pc + 2) THEN Throw(state, dirty, ADR)
      ELSE LET immediate == readSignedQuad(state.memory, pc + 2)
           IN  Return([state EXCEPT !.registers[dst] = normalize64(immediate),
                                    !.pc = pc + 10], dirty)

ExecRMMOVQ(state, dirty) ==
  LET pc == state.pc
      rb == RegByte(state)
      src == getRegisterName(rb.r.rA)
      base == getRegisterName(rb.r.rB)
  IN  IF ~rb.ok THEN Throw(state, dirty, ADR)
      ELSE IF src = "" \/ base = "" THEN Throw(state, dirty, INS)
      ELSE IF ~readQuadOK(pc + 2) THEN Throw(state, dirty, ADR)
      ELSE LET displacement == readSignedQuad(state.memory, pc + 2)
               sum == add64(state.registers[base], displacement)
               address == BigToNat(sum)
           IN  IF ~InMemoryRange(sum) THEN Throw(state, dirty, ADR)
               ELSE IF ~readQuadOK(address) THEN Throw(state, dirty, ADR)
               ELSE Return(
                      [state EXCEPT
                         !.memory = writeQuad(state.memory, address,
                                              state.registers[src]),
                         !.pc = pc + 10],
                      markMemoryRangeDirty(dirty, address, 8))

ExecMRMOVQ(state, dirty) ==
  LET pc == state.pc
      rb == RegByte(state)
      dst == getRegisterName(rb.r.rA)
      base == getRegisterName(rb.r.rB)
  IN  IF ~rb.ok THEN Throw(state, dirty, ADR)
      ELSE IF dst = "" \/ base = "" THEN Throw(state, dirty, INS)
      ELSE IF ~readQuadOK(pc + 2) THEN Throw(state, dirty, ADR)
      ELSE LET displacement == readSignedQuad(state.memory, pc + 2)
               sum == add64(state.registers[base], displacement)
               address == BigToNat(sum)
           IN  IF ~InMemoryRange(sum) THEN Throw(state, dirty, ADR)
               ELSE IF ~readQuadOK(address) THEN Throw(state, dirty, ADR)
               ELSE Return(
                      [state EXCEPT
                         !.registers[dst] =
                            readSignedQuad(state.memory, address),
                         !.pc = pc + 10],
                      dirty)

\* The ALU of OPQ: [ok, result, overflow]; ok is false for an unknown ifun.
ALU(ifun, valA, valB) ==
  LET a == toInt64(valA)
      b == toInt64(valB)
  IN  IF ifun = ALU_ADD THEN
        LET result == normalize64(AddBig(a, b))
        IN  [ok |-> TRUE, result |-> result,
             overflow |-> detectAddOverflow(a, b, result)]
      ELSE IF ifun = ALU_SUB THEN
        LET negA == normalize64(NegBig(a))
            result == normalize64(AddBig(b, negA))
        IN  [ok |-> TRUE, result |-> result,
             overflow |-> detectAddOverflow(b, negA, result)]
      ELSE IF ifun = ALU_AND THEN
        [ok |-> TRUE, result |-> normalize64(AndBig(valB, valA)),
         overflow |-> FALSE]
      ELSE IF ifun = ALU_XOR THEN
        [ok |-> TRUE, result |-> normalize64(XorBig(valB, valA)),
         overflow |-> FALSE]
      ELSE [ok |-> FALSE, result |-> ZeroBig, overflow |-> FALSE]

ExecOPQ(state, dirty, ifun) ==
  LET pc == state.pc
      rb == RegByte(state)
      src == getRegisterName(rb.r.rA)
      dst == getRegisterName(rb.r.rB)
  IN  IF ~rb.ok THEN Throw(state, dirty, ADR)
      ELSE IF src = "" \/ dst = "" THEN Throw(state, dirty, INS)
      ELSE LET alu == ALU(ifun, state.registers[src], state.registers[dst])
           IN  IF ~alu.ok THEN Throw(state, dirty, INS)
               ELSE Return(
                      [state EXCEPT
                         !.registers[dst] = alu.result,
                         !.conditionCodes =
                            [ZF |-> alu.result = ZeroBig,
                             SF |-> IsNegBig(alu.result),
                             OF |-> alu.overflow],
                         !.pc = pc + 2],
                      dirty)

ExecJXX(state, dirty, ifun) ==
  LET pc == state.pc
  IN  IF ~readQuadOK(pc + 1) THEN Throw(state, dirty, ADR)
      ELSE LET destination == readUnsignedQuad(state.memory, pc + 1)
           IN  IF ~InMemoryRange(destination) THEN Throw(state, dirty, ADR)
               ELSE IF evaluateCondition(ifun, state.conditionCodes)
                    THEN Return([state EXCEPT !.pc = BigToNat(destination)],
                                dirty)
                    ELSE Return([state EXCEPT !.pc = pc + 9], dirty)

\* A faulty call that pushes its own address; the call and return
\* property C18 must tell it from ExecCALL.
ExecCALLPushingOwnAddress(state, dirty) ==
  LET pc == state.pc
  IN  IF ~readQuadOK(pc + 1) THEN Throw(state, dirty, ADR)
      ELSE LET destination == readUnsignedQuad(state.memory, pc + 1)
           IN  IF ~InMemoryRange(destination) THEN Throw(state, dirty, ADR)
               ELSE
                 LET target == BigToNat(destination)
                     rsp == normalize64(SubBig(state.registers["rsp"],
                                               NatToBig(8)))
                     s1 == [state EXCEPT !.registers["rsp"] = rsp]
                     stackAddr == BigToNat(rsp)
                 IN  IF ~InMemoryRange(rsp) THEN Throw(s1, dirty, ADR)
                     ELSE IF ~readQuadOK(stackAddr) THEN Throw(s1, dirty, ADR)
                     ELSE Return(
                            [s1 EXCEPT
                               !.memory = writeQuad(s1.memory, stackAddr,
                                                    NatToBig(pc)),
                               !.pc = target],
                            markMemoryRangeDirty(dirty, stackAddr, 8))

ExecCALL(state, dirty) ==
  LET pc == state.pc
  IN  IF ~readQuadOK(pc + 1) THEN Throw(state, dirty, ADR)
      ELSE LET destination == readUnsignedQuad(state.memory, pc + 1)
           IN  IF ~InMemoryRange(destination) THEN Throw(state, dirty, ADR)
               ELSE
                 LET target == BigToNat(destination)
                     returnAddress == pc + 9
                     rsp == normalize64(SubBig(state.registers["rsp"],
                                               NatToBig(8)))
                     s1 == [state EXCEPT !.registers["rsp"] = rsp]
                     stackAddr == BigToNat(rsp)
                 IN  IF ~InMemoryRange(rsp) THEN Throw(s1, dirty, ADR)
                     ELSE IF ~readQuadOK(stackAddr) THEN Throw(s1, dirty, ADR)
                     ELSE Return(
                            [s1 EXCEPT
                               !.memory = writeQuad(s1.memory, stackAddr,
                                                    NatToBig(returnAddress)),
                               !.pc = target],
                            markMemoryRangeDirty(dirty, stackAddr, 8))

ExecRET(state, dirty) ==
  LET rsp0 == state.registers["rsp"]
      stackAddr == BigToNat(rsp0)
  IN  IF ~InMemoryRange(rsp0) THEN Throw(state, dirty, ADR)
      ELSE IF ~readQuadOK(stackAddr) THEN Throw(state, dirty, ADR)
      ELSE LET returnAddress == readUnsignedQuad(state.memory, stackAddr)
               s1 == [state EXCEPT
                        !.registers["rsp"] =
                           normalize64(AddBig(rsp0, NatToBig(8)))]
           IN  IF ~InMemoryRange(returnAddress) THEN Throw(s1, dirty, ADR)
               ELSE Return([s1 EXCEPT !.pc = BigToNat(returnAddress)], dirty)

ExecPUSHQ(state, dirty) ==
  LET pc == state.pc
      rb == RegByte(state)
      src == getRegisterName(rb.r.rA)
  IN  IF ~rb.ok THEN Throw(state, dirty, ADR)
      ELSE IF src = "" THEN Throw(state, dirty, INS)
      ELSE LET rsp == normalize64(SubBig(state.registers["rsp"], NatToBig(8)))
               s1 == [state EXCEPT !.registers["rsp"] = rsp]
               stackAddr == BigToNat(rsp)
           IN  IF ~InMemoryRange(rsp) THEN Throw(s1, dirty, ADR)
               ELSE IF ~readQuadOK(stackAddr) THEN Throw(s1, dirty, ADR)
               ELSE Return(
                      [s1 EXCEPT
                         !.memory = writeQuad(s1.memory, stackAddr,
                                              s1.registers[src]),
                         !.pc = pc + 2],
                      markMemoryRangeDirty(dirty, stackAddr, 8))

\* A faulty popq that raises the stack pointer before it stores the value
\* read; the stack property C17 must tell it from ExecPOPQ.
ExecPOPQValueLast(state, dirty) ==
  LET pc == state.pc
      rb == RegByte(state)
      dst == getRegisterName(rb.r.rA)
      rsp0 == state.registers["rsp"]
      stackAddr == BigToNat(rsp0)
  IN  IF ~rb.ok THEN Throw(state, dirty, ADR)
      ELSE IF dst = "" THEN Throw(state, dirty, INS)
      ELSE IF ~InMemoryRange(rsp0) THEN Throw(state, dirty, ADR)
      ELSE IF ~readQuadOK(stackAddr) THEN Throw(state, dirty, ADR)
      ELSE LET value == readSignedQuad(state.memory, stackAddr)
               s1 == [state EXCEPT
                        !.registers["rsp"] =
                           normalize64(AddBig(rsp0, NatToBig(8)))]
           IN  Return([s1 EXCEPT !.registers[dst] = value, !.pc = pc + 2],
                      dirty)

ExecPOPQ(state, dirty) ==
  LET pc == state.pc
      rb == RegByte(state)
      dst == getRegisterName(rb.r.rA)
      rsp0 == state.registers["rsp"]
      stackAddr == BigToNat(rsp0)
  IN  IF ~rb.ok THEN Throw(state, dirty, ADR)
      ELSE IF dst = "" THEN Throw(state, dirty, INS)
      ELSE IF ~InMemoryRange(rsp0) THEN Throw(state, dirty, ADR)
      ELSE IF ~readQuadOK(stackAddr) THEN Throw(state, dirty, ADR)
      ELSE LET value == readSignedQuad(state.memory, stackAddr)
               s1 == [state EXCEPT !.registers[dst] = value]
           IN  Return(
                 [s1 EXCEPT
                    !.registers["rsp"] =
                       normalize64(AddBig(s1.registers["rsp"], NatToBig(8))),
                    !.pc = pc + 2],
                 dirty)

\* A faulty executeInstruction whose halt leaves pc on the halt byte; the
\* halt property C21 must tell it from executeInstruction.
executeInstructionHaltInPlace(state, dirtyWords) ==
  LET pc == state.pc
  IN  IF pc < 0 \/ pc >= MEMORY_SIZE THEN Throw(state, dirtyWords, ADR)
      ELSE
        LET opcode == MemRead(state.memory, pc)
            icode == (opcode \div 16) % 16
            ifun == opcode % 16
        IN  IF icode = HALT THEN
              Return([state EXCEPT !.stat = HLT], dirtyWords)
            ELSE IF icode = NOP THEN
              Return([state EXCEPT !.pc = pc + 1], dirtyWords)
            ELSE IF icode = RRMOVQ THEN ExecRRMOVQ(state, dirtyWords, ifun)
            ELSE IF icode = IRMOVQ THEN ExecIRMOVQ(state, dirtyWords)
            ELSE IF icode = RMMOVQ THEN ExecRMMOVQ(state, dirtyWords)
            ELSE IF icode = MRMOVQ THEN ExecMRMOVQ(state, dirtyWords)
            ELSE IF icode = OPQ THEN ExecOPQ(state, dirtyWords, ifun)
            ELSE IF icode = JXX THEN ExecJXX(state, dirtyWords, ifun)
            ELSE IF icode = CALL THEN ExecCALL(state, dirtyWords)
            ELSE IF icode = RET THEN ExecRET(state, dirtyWords)
            ELSE IF icode = PUSHQ THEN ExecPUSHQ(state, dirtyWords)
            ELSE IF icode = POPQ THEN ExecPOPQ(state, dirtyWords)
            ELSE Throw(state, dirtyWords, INS)

executeInstruction(state, dirtyWords) ==
  LET pc == state.pc
  IN  IF pc < 0 \/ pc >= MEMORY_SIZE THEN Throw(state, dirtyWords, ADR)
      ELSE
        LET opcode == MemRead(state.memory, pc)
            icode == (opcode \div 16) % 16
            ifun == opcode % 16
        IN  IF icode = HALT THEN
              Return([state EXCEPT !.stat = HLT, !.pc = pc + 1], dirtyWords)
            ELSE IF icode = NOP THEN
              Return([state EXCEPT !.pc = pc + 1], dirtyWords)
            ELSE IF icode = RRMOVQ THEN ExecRRMOVQ(state, dirtyWords, ifun)
            ELSE IF icode = IRMOVQ THEN ExecIRMOVQ(state, dirtyWords)
            ELSE IF icode = RMMOVQ THEN ExecRMMOVQ(state, dirtyWords)
            ELSE IF icode = MRMOVQ THEN ExecMRMOVQ(state, dirtyWords)
            ELSE IF icode = OPQ THEN ExecOPQ(state, dirtyWords, ifun)
            ELSE IF icode = JXX THEN ExecJXX(state, dirtyWords, ifun)
            ELSE IF icode = CALL THEN ExecCALL(state, dirtyWords)
            ELSE IF icode = RET THEN ExecRET(state, dirtyWords)
            ELSE IF icode = PUSHQ THEN ExecPUSHQ(state, dirtyWords)
            ELSE IF icode = POPQ THEN ExecPOPQ(state, dirtyWords)
            ELSE Throw(state, dirtyWords, INS)

\* ------------------------------------------------------------ run driver

\* x.toString() and BigInt(text) for a bigint x: the text is a sign and
\* the digits of the magnitude.
BigToString(x) ==
  [neg |-> IsNegBig(x), mag |-> IF IsNegBig(x) THEN NegBig(x) ELSE x]
\* A faulty toBigInt that drops the sign of the text; the replay property
\* C1 must tell it from toBigInt.
toBigIntUnsigned(text) == text.mag

toBigInt(text) == IF text.neg THEN NegBig(text.mag) ELSE text.mag

createRegisterFile ==
  [r \in RegisterSet |->
     IF r = "rsp" THEN NatToBig(MEMORY_SIZE) ELSE ZeroBig]

snapshotMemory(memory, dirtyWords) ==
  LET addresses == { addr \in dirtyWords : addr >= 0 /\ addr < MEMORY_SIZE }
  IN  [address \in addresses |-> BigToString(Word8(memory, address))]

serializeState(state, dirtyWords) ==
  [PC   |-> state.pc,
   STAT |-> state.stat,
   REG  |-> [r \in RegisterSet |-> BigToString(state.registers[r])],
   CC   |-> [ZF |-> IF state.conditionCodes.ZF THEN 1 ELSE 0,
             SF |-> IF state.conditionCodes.SF THEN 1 ELSE 0,
             OF |-> IF state.conditionCodes.OF THEN 1 ELSE 0],
   MEM  |-> IF dirtyWords # {} THEN snapshotMemory(state.memory, dirtyWords)
            ELSE [a \in {} |-> 0]]

\* A faulty pass that records, for an instruction that threw, the state
\* from before the instruction; the failure property C15 must tell it from
\* StepOnce.
StepOnceDiscarding(state) ==
  Let(executeInstruction(state, {}),
      LAMBDA r :
        Let(IF r.err # 0 THEN [state EXCEPT !.stat = r.err] ELSE r.state,
            LAMBDA s : [state |-> s, entry |-> serializeState(s, r.dirty)]))

\* One pass of the while loop of simulateYoProgram: the call, the catch
\* that turns a thrown error into the status, and the entry pushed.
StepOnce(state) ==
  Let(executeInstruction(state, {}),
      LAMBDA r :
        Let(IF r.err # 0 THEN [r.state EXCEPT !.stat = r.err] ELSE r.state,
            LAMBDA s : [state |-> s, entry |-> serializeState(s, r.dirty)]))

\* A faulty loop that runs one instruction past the limit; the trace bound
\* C2 must tell it from RunLoop.
RECURSIVE RunLoopOneMore(_, _, _)
RunLoopOneMore(state, steps, trace) ==
  IF steps <= MAX_SIMULATION_STEPS /\ state.stat = AOK
  THEN Let(StepOnce(state),
           LAMBDA o :
             Let(Append(trace, o.entry),
                 LAMBDA pushed : RunLoopOneMore(o.state, steps + 1, pushed)))
  ELSE [state |-> state, trace |-> trace]

RECURSIVE RunLoop(_, _, _)
RunLoop(state, steps, trace) ==
  IF steps < MAX_SIMULATION_STEPS /\ state.stat = AOK
  THEN Let(StepOnce(state),
           LAMBDA o :
             Let(Append(trace, o.entry),
                 LAMBDA pushed : RunLoop(o.state, steps + 1, pushed)))
  ELSE [state |-> state, trace |-> trace]

\* The state simulateYoProgram starts from.
InitialSimulationState(parsed) ==
  [pc |-> parsed.entryPoint,
   stat |-> AOK,
   registers |-> createRegisterFile,
   conditionCodes |-> [ZF |-> FALSE, SF |-> FALSE, OF |-> FALSE],
   memory |-> parsed.memory]

\* A faulty simulateYoProgram that returns its entries newest first; the
\* order property C35 must tell it from simulateYoProgram.
simulateYoProgramNewestFirst(yoContent) ==
  Let(parseYoProgram(yoContent),
      LAMBDA parsed :
        IF parsed.thrown THEN [thrown |-> TRUE, trace |-> << >>]
        ELSE
          Let(InitialSimulationState(parsed),
              LAMBDA state :
                Let(RunLoop(state, 0,
                            << serializeState(state, parsed.dirtyWords) >>),
                    LAMBDA run :
                      Let(IF run.state.stat = AOK
                          THEN Append(run.trace,
                                      serializeState(
                                        [run.state EXCEPT !.stat = HLT], {}))
                          ELSE run.trace,
                          LAMBDA trace :
                            [thrown |-> FALSE,
                             trace  |-> [k \in 1 .. Len(trace) |->
                                           trace[Len(trace) + 1 - k]]]))))

\* [thrown, trace]: thrown when parseYoProgram throws.
simulateYoProgram(yoContent) ==
  Let(parseYoProgram(yoContent),
      LAMBDA parsed :
        IF parsed.thrown THEN [thrown |-> TRUE, trace |-> << >>]
        ELSE
          Let(InitialSimulationState(parsed),
              LAMBDA state :
                Let(RunLoop(state, 0,
                            << serializeState(state, parsed.dirtyWords) >>),
                    LAMBDA run :
                      [thrown |-> FALSE,
                       trace  |->
                         IF run.state.stat = AOK
                         THEN Append(run.trace,
                                     serializeState(
                                       [run.state EXCEPT !.stat = HLT], {}))
                         ELSE run.trace])))

\* ------------------------------------------------------------ inputs

\* The two hexadecimal digits of each byte, and a record line with one run.
HexDigits(bytes) ==
  [k \in 1 .. 2 * Len(bytes) |->
     IF k % 2 = 1 THEN bytes[(k + 1) \div 2] \div 16
     ELSE bytes[k \div 2] % 16]
AddressDigits(n) ==
  << (n \div 4096) % 16, (n \div 256) % 16, (n \div 16) % 16, n % 16 >>
Line(address, bytes) ==
  [address |-> AddressDigits(address), runs |-> << HexDigits(bytes) >>]
Imm(n) == << n % 256, (n \div 256) % 256, 0, 0, 0, 0, 0, 0 >>

\* 0x000: halt
ProgHalt == << Line(0, << 0 >>) >>

\* 0x000: irmovq $1,%rax   0x00a: addq %rax,%rax   0x00c: jmp 0x00a
ProgLoop ==
  << Line(0, << 48, 240 >> \o Imm(1)),
     Line(10, << 96, 0 >>),
     Line(12, << 112 >> \o Imm(10)) >>

\* 0x000: irmovq $5,%rax   0x00a: subq %rax,%rcx
\* 0x00c: rrmovq %rcx,%rax  0x00e: halt
ProgArith ==
  << Line(0, << 48, 240 >> \o Imm(5)),
     Line(10, << 97, 1 >>),
     Line(12, << 32, 16 >>),
     Line(14, << 0 >>) >>

\* 0x000: irmovq $3,%rax   0x00a: pushq %rax   0x00c: popq %rbx
\* 0x00e: halt
ProgStack ==
  << Line(0, << 48, 240 >> \o Imm(3)),
     Line(10, << 160, 15 >>),
     Line(12, << 176, 63 >>),
     Line(14, << 0 >>) >>

\* 0x000: nop   0x001: call 0x8000
ProgCallAdr == << Line(0, << 16, 128 >> \o Imm(32768)) >>

\* 0x000: nop   0x001: an opcode byte with instruction code 12
ProgIns == << Line(0, << 16, 192 >>) >>

\* Records out of order, none at address 0: 0x012: halt, 0x010: nop nop
ProgEntry == << Line(18, << 0 >>), Line(16, << 16, 16 >>) >>

\* A record whose address is the memory size.
ProgBadAddr == << Line(0, << 16 >>), Line(32768, << 0 >>) >>

\* A record whose second byte falls at the memory size.
ProgBadTarget == << Line(0, << 16 >>), Line(32767, << 16, 0 >>) >>

\* Byte pairs separated by spaces, 0x000: 10 10 00 (nop nop halt).
ProgSpaced ==
  << [address |-> AddressDigits(0),
      runs |-> << HexDigits(<< 16 >>), HexDigits(<< 16 >>),
                  HexDigits(<< 0 >>) >>] >>

Programs ==
  { ProgHalt, ProgLoop, ProgArith, ProgStack, ProgCallAdr, ProgIns,
    ProgEntry, ProgBadAddr, ProgBadTarget, ProgSpaced }

\* runRemoteProgram(text) for each text of Programs.
RemoteResult == [p \in Programs |-> simulateYoProgram(p)]

\* ------------------------------------------------------------ Y86CPU

\* The fields of a Y86CPU object.  statBeforeBreakpoint 0 and
\* lastBreakpointHit << >> stand for null; currentIndex is the cursor.
createInitialState ==
  [pc |-> 0,
   stat |-> AOK,
   registers |-> createRegisterFile,
   conditionCodes |-> [ZF |-> TRUE, SF |-> FALSE, OF |-> FALSE],
   memory |-> EmptyMemory,
   cycle |-> 0]

NewCPU ==
  [state |-> createInitialState,
   executionHistory |-> << >>,
   breakpoints |-> [a \in {} |-> 0],
   lastBreakpointHit |-> << >>,
   trace |-> << >>,
   currentIndex |-> -1,
   running |-> FALSE,
   statBeforeBreakpoint |-> 0]

\* A faulty reset that also clears the breakpoints; the persistence
\* property C8 must tell it from reset.
resetClearingBreakpoints(c) ==
  [c EXCEPT !.state = createInitialState,
            !.executionHistory = << >>,
            !.breakpoints = [a \in {} |-> 0],
            !.trace = << >>,
            !.currentIndex = -1,
            !.running = FALSE,
            !.statBeforeBreakpoint = 0,
            !.lastBreakpointHit = << >>]

\* A faulty reset that keeps the bytes of memory; the reload property C26
\* must tell it from reset.
resetKeepingMemory(c) ==
  [c EXCEPT !.state = [createInitialState EXCEPT !.memory = c.state.memory],
            !.executionHistory = << >>,
            !.trace = << >>,
            !.currentIndex = -1,
            !.running = FALSE,
            !.statBeforeBreakpoint = 0,
            !.lastBreakpointHit = << >>]

reset(c) ==
  [c EXCEPT !.state = createInitialState,
            !.executionHistory = << >>,
            !.trace = << >>,
            !.currentIndex = -1,
            !.running = FALSE,
            !.statBeforeBreakpoint = 0,
            !.lastBreakpointHit = << >>]

convertRegisters(regData) ==
  [r \in RegisterSet |->
     IF r \in DOMAIN regData THEN toBigInt(regData[r]) ELSE ZeroBig]

convertFlags(cc) == [ZF |-> cc.ZF = 1, SF |-> cc.SF = 1, OF |-> cc.OF = 1]

\* The forEach of convertMemory over the entries whose key is >= from, in
\* ascending key order.
RECURSIVE StoreWords(_, _, _)
StoreWords(memData, memory, from) ==
  LET keys == { k \in DOMAIN memData : k >= from }
  IN  IF keys = {} THEN memory
      ELSE LET address == CHOOSE k \in keys : \A j \in keys : k <= j
               word == toBigInt(memData[address])
               next ==
                 IF address < 0 \/ address >= MEMORY_SIZE THEN memory
                 ELSE IF address + 7 < MEMORY_SIZE
                      THEN MemWrite8(memory, address, word)
                      ELSE LET part == [a \in address .. (MEMORY_SIZE - 1) |->
                                          word[a - address + 1]]
                               keep == (DOMAIN memory) \ DOMAIN part
                               set  == { a \in DOMAIN part : part[a] # 0 }
                           IN  [a \in keep \cup set |->
                                  IF a \in DOMAIN part THEN part[a]
                                  ELSE memory[a]]
           IN  Let(next, LAMBDA stored :
                           StoreWords(memData, stored, address + 1))

\* A faulty convertMemory that starts from an empty memory instead of the
\* memory before; the replay property C33 must tell it from convertMemory.
convertMemoryFromZero(memData, previousMemory) ==
  StoreWords(memData, EmptyMemory, 0)

convertMemory(memData, previousMemory) ==
  StoreWords(memData, previousMemory, 0)

\* A faulty applyRemoteState that counts cycles from 1; the cursor property
\* C37 must tell it from applyRemoteState.
applyRemoteStateCountingFromOne(c, entry, cycleIndex) ==
  [c EXCEPT !.state =
     [pc |-> entry.PC,
      stat |-> STATUS_MAP(entry.STAT),
      registers |-> convertRegisters(entry.REG),
      conditionCodes |-> convertFlags(entry.CC),
      memory |-> convertMemory(entry.MEM, c.state.memory),
      cycle |-> cycleIndex + 1]]

applyRemoteState(c, entry, cycleIndex) ==
  [c EXCEPT !.state =
     [pc |-> entry.PC,
      stat |-> STATUS_MAP(entry.STAT),
      registers |-> convertRegisters(entry.REG),
      conditionCodes |-> convertFlags(entry.CC),
      memory |-> convertMemory(entry.MEM, c.state.memory),
      cycle |-> cycleIndex]]

\* id is `snapshot_${cycle}_${Date.now()}`.
captureSnapshot(c, now) ==
  [c EXCEPT !.executionHistory =
     Append(@, [id |-> << c.state.cycle, now >>,
                timestamp |-> now,
                cycle |-> c.state.cycle,
                pc |-> c.state.pc,
                stat |-> c.state.stat,
                registers |-> c.state.registers,
                conditionCodes |-> c.state.conditionCodes,
                memory |-> c.state.memory])]

hasNextStep(c) ==
  Len(c.trace) > 0 /\ c.currentIndex < Len(c.trace) - 1

Reverse(s) == [k \in 1 .. Len(s) |-> s[Len(s) + 1 - k]]

\* A faulty first half of loadProgram that does not reset the session; the
\* failed-load property C24 must tell it from loadProgramCall.
loadProgramCallKeeping(c, yoContent) ==
  [cpu |-> c, result |-> RemoteResult[yoContent]]

\* loadProgram up to its await: reset(), and the result of
\* runRemoteProgram that the rest of the method will receive.
loadProgramCall(c, yoContent) ==
  [cpu |-> reset(c), result |-> RemoteResult[yoContent]]

\* A faulty second half of loadProgram that refuses a trace ending in ADR
\* or INS; the faulting-program property C25 must tell it from
\* loadProgramResume.
loadProgramResumeHaltOnly(c, result, now) ==
  IF result.thrown THEN [cpu |-> c, ret |-> FALSE]
  ELSE IF Len(result.trace) = 0 THEN [cpu |-> c, ret |-> FALSE]
  ELSE IF result.trace[Len(result.trace)].STAT \in {ADR, INS}
  THEN [cpu |-> c, ret |-> FALSE]
  ELSE
    LET trace == result.trace
        needsReverse ==
          /\ Len(trace) > 1
          /\ trace[1].STAT # AOK
          /\ trace[Len(trace)].STAT = AOK
        c1 == [c EXCEPT !.trace = IF needsReverse THEN Reverse(trace)
                                  ELSE trace,
                        !.currentIndex = 0]
    IN  Let(applyRemoteState(c1, c1.trace[1], 0),
            LAMBDA c2 :
              [cpu |-> captureSnapshot(
                         [c2 EXCEPT !.running = Len(c2.trace) > 1], now),
               ret |-> TRUE])

\* loadProgram after its await; trace[k + 1] is the source's trace[k].
loadProgramResume(c, result, now) ==
  IF result.thrown THEN [cpu |-> c, ret |-> FALSE]
  ELSE IF Len(result.trace) = 0 THEN [cpu |-> c, ret |-> FALSE]
  ELSE
    LET trace == result.trace
        needsReverse ==
          /\ Len(trace) > 1
          /\ trace[1].STAT # AOK
          /\ trace[Len(trace)].STAT = AOK
        c1 == [c EXCEPT !.trace = IF needsReverse THEN Reverse(trace)
                                  ELSE trace,
                        !.currentIndex = 0]
    IN  Let(applyRemoteState(c1, c1.trace[1], 0),
            LAMBDA c2 :
              [cpu |-> captureSnapshot(
                         [c2 EXCEPT !.running = Len(c2.trace) > 1], now),
               ret |-> TRUE])

\* loadProgram awaited by its caller: nothing runs between its two halves.
loadProgram(c, yoContent, now) ==
  Let(loadProgramCall(c, yoContent),
      LAMBDA call : loadProgramResume(call.cpu, call.result, now))

\* ------------------------------------------------------------ breakpoints

\* A condition text is a sequence of characters.  The names and operators
\* of the pattern of evaluateBreakpointCondition, in its order of
\* alternatives.
ConditionRegisters ==
  << << "r", "a", "x" >>, << "r", "c", "x" >>, << "r", "d", "x" >>,
     << "r", "b", "x" >>, << "r", "s", "p" >>, << "r", "b", "p" >>,
     << "r", "s", "i" >>, << "r", "d", "i" >>, << "r", "8" >>,
     << "r", "9" >>, << "r", "1", "0" >>, << "r", "1", "1" >>,
     << "r", "1", "2" >>, << "r", "1", "3" >>, << "r", "1", "4" >> >>

ConditionOperators ==
  << << "=", "=" >>, << "!", "=" >>, << ">" >>, << "<" >>,
     << ">", "=" >>, << "<", "=" >> >>

Digits == << "0", "1", "2", "3", "4", "5", "6", "7", "8", "9" >>
DigitValue(ch) == (CHOOSE d \in 1 .. 10 : Digits[d] = ch) - 1
IsDigit(ch) == \E d \in 1 .. 10 : Digits[d] = ch
IsSpace(ch) == ch \in { " ", "\t" }

StartsWith(text, prefix) ==
  /\ Len(text) >= Len(prefix)
  /\ SubSeq(text, 1, Len(prefix)) = prefix
Drop(text, n) == SubSeq(text, n + 1, Len(text))

\* \s* : the text after its leading white space.
RECURSIVE SkipSpace(_)
SkipSpace(text) ==
  IF text # << >> /\ IsSpace(text[1]) THEN SkipSpace(Drop(text, 1)) ELSE text

\* (-?\d+)$
IsLiteral(text) ==
  LET digits == IF text # << >> /\ text[1] = "-" THEN Drop(text, 1) ELSE text
  IN  digits # << >> /\ \A k \in 1 .. Len(digits) : IsDigit(digits[k])

\* The ways the pattern matches the whole text: the register alternative,
\* the operator alternative and the literal's text.
ConditionMatches(text) ==
  { m \in [reg : 1 .. Len(ConditionRegisters),
           op  : 1 .. Len(ConditionOperators)] :
      /\ StartsWith(text, ConditionRegisters[m.reg])
      /\ LET t1 == SkipSpace(Drop(text, Len(ConditionRegisters[m.reg])))
         IN  /\ StartsWith(t1, ConditionOperators[m.op])
             /\ IsLiteral(SkipSpace(Drop(t1, Len(ConditionOperators[m.op])))) }

\* BigInt(text) of a decimal literal.
TimesTen(x) ==
  LET x2 == AddBig(x, x)
      x4 == AddBig(x2, x2)
      x8 == AddBig(x4, x4)
  IN  AddBig(x8, x2)
RECURSIVE DecimalToBig(_)
DecimalToBig(digits) ==
  IF digits = << >> THEN ZeroBig
  ELSE AddBig(TimesTen(DecimalToBig(SubSeq(digits, 1, Len(digits) - 1))),
              NatToBig(DigitValue(digits[Len(digits)])))
LiteralToBig(text) ==
  IF text[1] = "-" THEN NegBig(DecimalToBig(Drop(text, 1)))
  ELSE DecimalToBig(text)

evaluateBreakpointCondition(c, condition) ==
  LET matches == ConditionMatches(condition)
  IN  IF matches = {} THEN FALSE
      ELSE
        LET m == CHOOSE x \in matches :
                   \A y \in matches :
                     x.reg < y.reg \/ (x.reg = y.reg /\ x.op <= y.op)
            regName == REGISTER_KEYS[m.reg]
            operator == m.op
            t1 == SkipSpace(Drop(condition, Len(ConditionRegisters[m.reg])))
            literal == SkipSpace(Drop(t1, Len(ConditionOperators[m.op])))
            targetValue == LiteralToBig(literal)
            currentValue == c.state.registers[regName]
        IN  IF operator = 1 THEN currentValue = targetValue
            ELSE IF operator = 2 THEN currentValue # targetValue
            ELSE IF operator = 3 THEN LessBig(targetValue, currentValue)
            ELSE IF operator = 4 THEN LessBig(currentValue, targetValue)
            ELSE IF operator = 5 THEN ~LessBig(currentValue, targetValue)
            ELSE ~LessBig(targetValue, currentValue)

\* A faulty checkBreakpoint that does not look at the enabled flag; the
\* firing rule C6 must tell it from checkBreakpoint.
checkBreakpointIgnoringEnabled(c, address) ==
  IF address \notin DOMAIN c.breakpoints THEN [hit |-> FALSE, cpu |-> c]
  ELSE
    LET bp == c.breakpoints[address]
    IN  IF /\ bp.condition.defined
           /\ bp.condition.text # << >>
           /\ ~evaluateBreakpointCondition(c, bp.condition.text)
        THEN [hit |-> FALSE, cpu |-> c]
        ELSE [hit |-> TRUE,
              cpu |-> [c EXCEPT !.breakpoints[address].hitCount = @ + 1]]

\* A faulty checkBreakpoint that counts a visit before it evaluates the
\* condition; the hit counter property C7 must tell it from
\* checkBreakpoint.
checkBreakpointCountingVisits(c, address) ==
  IF address \notin DOMAIN c.breakpoints THEN [hit |-> FALSE, cpu |-> c]
  ELSE
    LET bp == c.breakpoints[address]
        counted == [c EXCEPT !.breakpoints[address].hitCount = @ + 1]
    IN  IF ~bp.enabled THEN [hit |-> FALSE, cpu |-> c]
        ELSE IF /\ bp.condition.defined
                /\ bp.condition.text # << >>
                /\ ~evaluateBreakpointCondition(c, bp.condition.text)
             THEN [hit |-> FALSE, cpu |-> counted]
        ELSE [hit |-> TRUE, cpu |-> counted]

\* A condition is [defined, text]; undefined and "" are falsy.
checkBreakpoint(c, address) ==
  IF address \notin DOMAIN c.breakpoints THEN [hit |-> FALSE, cpu |-> c]
  ELSE
    LET bp == c.breakpoints[address]
    IN  IF ~bp.enabled THEN [hit |-> FALSE, cpu |-> c]
        ELSE IF /\ bp.condition.defined
                /\ bp.condition.text # << >>
                /\ ~evaluateBreakpointCondition(c, bp.condition.text)
             THEN [hit |-> FALSE, cpu |-> c]
        ELSE [hit |-> TRUE,
              cpu |-> [c EXCEPT !.breakpoints[address].hitCount = @ + 1]]

\* The id, `bp_${address}_${Date.now()}`, is an output no method reads.
addBreakpoint(c, address, condition) ==
  [c EXCEPT !.breakpoints =
     [a \in (DOMAIN c.breakpoints) \cup {address} |->
        IF a = address
        THEN [address |-> address,
              enabled |-> TRUE,
              condition |-> condition,
              hitCount |-> 0]
        ELSE c.breakpoints[a]]]

removeBreakpoint(c, address) ==
  [cpu |-> [c EXCEPT !.breakpoints =
              [a \in (DOMAIN c.breakpoints) \ {address} |-> c.breakpoints[a]]],
   ret |-> address \in DOMAIN c.breakpoints]

\* A faulty toggleBreakpoint that sets a breakpoint where none is held;
\* the lookup failure property C10 must tell it from toggleBreakpoint.
toggleOrAddBreakpoint(c, address) ==
  IF address \in DOMAIN c.breakpoints
  THEN [cpu |-> [c EXCEPT !.breakpoints[address].enabled = ~@],
        ret |-> ~c.breakpoints[address].enabled]
  ELSE [cpu |-> addBreakpoint(c, address, [defined |-> FALSE, text |-> << >>]),
        ret |-> FALSE]

toggleBreakpoint(c, address) ==
  IF address \in DOMAIN c.breakpoints
  THEN [cpu |-> [c EXCEPT !.breakpoints[address].enabled = ~@],
        ret |-> ~c.breakpoints[address].enabled]
  ELSE [cpu |-> c, ret |-> FALSE]

clearAllBreakpoints(c) == [c EXCEPT !.breakpoints = [a \in {} |-> 0]]

\* ------------------------------------------------------------ stepping

\* A faulty step that remembers the status after forcing it to HLT; the
\* pause property C4 must tell it from step.
stepRememberingForcedStatus(c, now) ==
  IF ~hasNextStep(c)
  THEN [cpu |-> [c EXCEPT !.running = FALSE], ret |-> FALSE, hit |-> FALSE]
  ELSE
    LET nextIndex == c.currentIndex + 1
        status == STATUS_MAP(c.trace[nextIndex + 1].STAT)
    IN  Let(applyRemoteState(c, c.trace[nextIndex + 1], nextIndex),
          LAMBDA c1 :
        Let(captureSnapshot([c1 EXCEPT !.currentIndex = nextIndex], now),
          LAMBDA c2 :
        Let([c2 EXCEPT !.running = (status = AOK /\ hasNextStep(c2))],
          LAMBDA c3 :
        Let(checkBreakpoint(c3, c3.state.pc),
          LAMBDA check :
        Let(IF check.hit
            THEN [check.cpu EXCEPT
                    !.lastBreakpointHit =
                       << [breakpoint |-> c3.state.pc,
                           cycle |-> c3.state.cycle,
                           pc |-> c3.state.pc] >>,
                    !.statBeforeBreakpoint = HLT,
                    !.state.stat = HLT,
                    !.running = FALSE]
            ELSE check.cpu,
          LAMBDA c4 :
        [cpu |-> c4, ret |-> c4.running, hit |-> check.hit])))))

\* A faulty step() that leaves running as it is when a breakpoint fires;
\* the running property C36 must tell it from step.
stepRunningAfterHit(c, now) ==
  IF ~hasNextStep(c)
  THEN [cpu |-> [c EXCEPT !.running = FALSE], ret |-> FALSE, hit |-> FALSE]
  ELSE
    LET nextIndex == c.currentIndex + 1
        status == STATUS_MAP(c.trace[nextIndex + 1].STAT)
    IN  Let(applyRemoteState(c, c.trace[nextIndex + 1], nextIndex),
          LAMBDA c1 :
        Let(captureSnapshot([c1 EXCEPT !.currentIndex = nextIndex], now),
          LAMBDA c2 :
        Let([c2 EXCEPT !.running = (status = AOK /\ hasNextStep(c2))],
          LAMBDA c3 :
        Let(checkBreakpoint(c3, c3.state.pc),
          LAMBDA check :
        Let(IF check.hit
            THEN [check.cpu EXCEPT
                    !.lastBreakpointHit =
                       << [breakpoint |-> c3.state.pc,
                           cycle |-> c3.state.cycle,
                           pc |-> c3.state.pc] >>,
                    !.statBeforeBreakpoint = check.cpu.state.stat,
                    !.state.stat = HLT]
            ELSE check.cpu,
          LAMBDA c4 :
        [cpu |-> c4, ret |-> c4.running, hit |-> check.hit])))))

\* step(): [cpu, ret, hit]; hit tells whether checkBreakpoint returned a hit.
step(c, now) ==
  IF ~hasNextStep(c)
  THEN [cpu |-> [c EXCEPT !.running = FALSE], ret |-> FALSE, hit |-> FALSE]
  ELSE
    LET nextIndex == c.currentIndex + 1
        status == STATUS_MAP(c.trace[nextIndex + 1].STAT)
    IN  Let(applyRemoteState(c, c.trace[nextIndex + 1], nextIndex),
          LAMBDA c1 :
        Let(captureSnapshot([c1 EXCEPT !.currentIndex = nextIndex], now),
          LAMBDA c2 :
        Let([c2 EXCEPT !.running = (status = AOK /\ hasNextStep(c2))],
          LAMBDA c3 :
        Let(checkBreakpoint(c3, c3.state.pc),
          LAMBDA check :
        Let(IF check.hit
            THEN [check.cpu EXCEPT
                    !.lastBreakpointHit =
                       << [breakpoint |-> c3.state.pc,
                           cycle |-> c3.state.cycle,
                           pc |-> c3.state.pc] >>,
                    !.statBeforeBreakpoint = check.cpu.state.stat,
                    !.state.stat = HLT,
                    !.running = FALSE]
            ELSE check.cpu,
          LAMBDA c4 :
        [cpu |-> c4, ret |-> c4.running, hit |-> check.hit])))))

\* A faulty continueFromBreakpoint that resumes whatever the remembered
\* status and the cursor are; the resume property C5 must tell it from
\* continueFromBreakpoint.
continueAlwaysRunning(c) ==
  IF c.lastBreakpointHit # << >> /\ c.statBeforeBreakpoint # 0
  THEN [c EXCEPT !.state.stat = c.statBeforeBreakpoint,
                 !.running = TRUE,
                 !.lastBreakpointHit = << >>,
                 !.statBeforeBreakpoint = 0]
  ELSE c

continueFromBreakpoint(c) ==
  IF c.lastBreakpointHit # << >> /\ c.statBeforeBreakpoint # 0
  THEN LET c1 == [c EXCEPT !.state.stat = c.statBeforeBreakpoint]
       IN  [c1 EXCEPT !.running = (c1.state.stat = AOK /\ hasNextStep(c1)),
                      !.lastBreakpointHit = << >>,
                      !.statBeforeBreakpoint = 0]
  ELSE c

\* A faulty restoreSnapshot that leaves the cursor where it was; the
\* restore property C9 must tell it from restoreSnapshot.
restoreSnapshotKeepingCursor(c, snapshotId) ==
  LET found == { k \in 1 .. Len(c.executionHistory) :
                   c.executionHistory[k].id = snapshotId }
  IN  IF found = {} THEN [cpu |-> c, ret |-> FALSE]
      ELSE
        LET snapshot ==
              c.executionHistory[CHOOSE k \in found : \A j \in found : k <= j]
            c1 == [c EXCEPT
                     !.state = [pc |-> snapshot.pc,
                                stat |-> snapshot.stat,
                                registers |-> snapshot.registers,
                                conditionCodes |-> snapshot.conditionCodes,
                                memory |-> snapshot.memory,
                                cycle |-> snapshot.cycle]]
        IN  [cpu |-> [c1 EXCEPT
                        !.running = (c1.state.stat = AOK
                                     /\ c1.currentIndex < Len(c1.trace) - 1)],
             ret |-> TRUE]

\* A faulty restoreSnapshot that drops the snapshots taken after the one
\* restored; the history property C28 must tell it from restoreSnapshot.
restoreSnapshotTruncating(c, snapshotId) ==
  LET found == { k \in 1 .. Len(c.executionHistory) :
                   c.executionHistory[k].id = snapshotId }
  IN  IF found = {} THEN [cpu |-> c, ret |-> FALSE]
      ELSE
        LET first == CHOOSE k \in found : \A j \in found : k <= j
            snapshot == c.executionHistory[first]
            c1 == [c EXCEPT
                     !.state = [pc |-> snapshot.pc,
                                stat |-> snapshot.stat,
                                registers |-> snapshot.registers,
                                conditionCodes |-> snapshot.conditionCodes,
                                memory |-> snapshot.memory,
                                cycle |-> snapshot.cycle],
                     !.currentIndex = snapshot.cycle,
                     !.executionHistory = SubSeq(@, 1, first)]
        IN  [cpu |-> [c1 EXCEPT
                        !.running = (c1.state.stat = AOK
                                     /\ c1.currentIndex < Len(c1.trace) - 1)],
             ret |-> TRUE]

\* executionHistory.find(s => s.id === snapshotId): the first match.
restoreSnapshot(c, snapshotId) ==
  LET found == { k \in 1 .. Len(c.executionHistory) :
                   c.executionHistory[k].id = snapshotId }
  IN  IF found = {} THEN [cpu |-> c, ret |-> FALSE]
      ELSE
        LET snapshot ==
              c.executionHistory[CHOOSE k \in found : \A j \in found : k <= j]
            c1 == [c EXCEPT
                     !.state = [pc |-> snapshot.pc,
                                stat |-> snapshot.stat,
                                registers |-> snapshot.registers,
                                conditionCodes |-> snapshot.conditionCodes,
                                memory |-> snapshot.memory,
                                cycle |-> snapshot.cycle],
                     !.currentIndex = snapshot.cycle]
        IN  [cpu |-> [c1 EXCEPT
                        !.running = (c1.state.stat = AOK
                                     /\ c1.currentIndex < Len(c1.trace) - 1)],
             ret |-> TRUE]

\* ------------------------------------------------------------ the session

\* Bounds of the exploration.
MaxHistory == 5
MaxHits == 1
MaxTime == 0

BreakpointAddresses == { 10, 12 }

Undefined == [defined |-> FALSE, text |-> << >>]
Text(chars) == [defined |-> TRUE, text |-> chars]

\* "rax==2", "rcx <= -5", "rax=2" and "".
CondRaxEq2 == Text(<< "r", "a", "x", "=", "=", "2" >>)
CondRcxLeM5 == Text(<< "r", "c", "x", " ", "<", "=", " ", "-", "5" >>)
CondMalformed == Text(<< "r", "a", "x", "=", "2" >>)
CondEmpty == Text(<< >>)

Conditions == { Undefined, CondEmpty, CondRaxEq2, CondRcxLeM5, CondMalformed }
SessionConditions == { Undefined, CondRaxEq2 }

SnapshotIds == { << cy, t >> : cy \in 0 .. MaxHistory, t \in 0 .. MaxTime }

\* The texts loaded in each environment.
SessionPrograms ==
  { ProgHalt, ProgLoop, ProgArith, ProgStack, ProgCallAdr, ProgBadAddr }
BreakPrograms == { ProgLoop, ProgArith }

VARIABLES
  cpu        \* the Y86CPU object

vars == << cpu >>

\* The readings Date.now() can give: none is earlier than a reading
\* already stored in the history.
Readings ==
  { t \in 0 .. MaxTime :
      \A k \in 1 .. Len(cpu.executionHistory) :
        cpu.executionHistory[k].timestamp <= t }

Init == cpu = NewCPU

Reset == cpu' = reset(cpu)

LoadProgram ==
  \E p \in SessionPrograms, now \in Readings :
    cpu' = loadProgram(cpu, p, now).cpu

\* The caps keep the history and the hit counters finite.
Step ==
  \E now \in Readings :
    \E r \in { step(cpu, now) } :
      /\ Len(r.cpu.executionHistory) <= MaxHistory
      /\ \A a \in DOMAIN r.cpu.breakpoints :
           r.cpu.breakpoints[a].hitCount <= MaxHits
      /\ cpu' = r.cpu

ContinueFromBreakpoint == cpu' = continueFromBreakpoint(cpu)

AddBreakpoint ==
  \E a \in BreakpointAddresses, cond \in SessionConditions :
    cpu' = addBreakpoint(cpu, a, cond)

RemoveBreakpoint ==
  \E a \in BreakpointAddresses : cpu' = removeBreakpoint(cpu, a).cpu

ToggleBreakpoint ==
  \E a \in BreakpointAddresses : cpu' = toggleBreakpoint(cpu, a).cpu

ClearAllBreakpoints == cpu' = clearAllBreakpoints(cpu)

RestoreSnapshot ==
  \E id \in SnapshotIds : cpu' = restoreSnapshot(cpu, id).cpu

\* Every public method, called in any order.
Next ==
  \/ Reset
  \/ LoadProgram
  \/ Step
  \/ ContinueFromBreakpoint
  \/ AddBreakpoint
  \/ RemoveBreakpoint
  \/ ToggleBreakpoint
  \/ ClearAllBreakpoints
  \/ RestoreSnapshot

Spec == Init /\ [][Next]_vars

\* -------------------------------------------- replay without breakpoints

LoadAnyProgram ==
  \E p \in Programs, now \in Readings :
    cpu' = loadProgram(cpu, p, now).cpu

NextReplay ==
  \/ Reset
  \/ LoadAnyProgram
  \/ Step
  \/ RestoreSnapshot

SpecReplay == Init /\ [][NextReplay]_vars

\* -------------------------------------------- breakpoints and conditions

LoadBreakProgram ==
  \E p \in BreakPrograms, now \in Readings :
    cpu' = loadProgram(cpu, p, now).cpu

AddConditionalBreakpoint ==
  \E a \in BreakpointAddresses, cond \in Conditions :
    cpu' = addBreakpoint(cpu, a, cond)

NextBreak ==
  \/ LoadBreakProgram
  \/ Step
  \/ ContinueFromBreakpoint
  \/ AddConditionalBreakpoint
  \/ RemoveBreakpoint
  \/ ToggleBreakpoint

SpecBreak == Init /\ [][NextBreak]_vars

\* -------------------------------------------- a run from load to the end

\* The breakpoints set before the run: at each address none, or one with
\* any of the conditions, enabled or disabled.
Preset == { << >> } \cup { << cond, en >> : cond \in Conditions, en \in BOOLEAN }

WithPreset(c, address, preset) ==
  IF preset = << >> THEN c
  ELSE LET c1 == addBreakpoint(c, address, preset[1])
       IN  IF preset[2] THEN c1 ELSE toggleBreakpoint(c1, address).cpu

\* The addresses of the presets: the entry point and two later
\* instructions.
RunAddresses == << 0, 10, 12 >>

RunPrograms == { ProgHalt, ProgLoop, ProgArith, ProgCallAdr }

RECURSIVE WithPresets(_, _, _)
WithPresets(c, presets, k) ==
  IF k > Len(RunAddresses) THEN c
  ELSE WithPresets(WithPreset(c, RunAddresses[k], presets[k]), presets, k + 1)

InitRun ==
  \E p \in RunPrograms, presets \in [1 .. Len(RunAddresses) -> Preset] :
    cpu = loadProgram(WithPresets(NewCPU, presets, 1), p, 0).cpu

\* The run timer: step() while isRunning().
RunStep ==
  /\ cpu.running
  /\ \E now \in Readings : cpu' = step(cpu, now).cpu

\* The continue button after a hit.
RunContinue ==
  /\ cpu.lastBreakpointHit # << >>
  /\ cpu' = continueFromBreakpoint(cpu)

NextRun ==
  \/ RunStep
  \/ RunContinue

SpecRun == InitRun /\ [][NextRun]_vars

\* -------------------------------------------- the interpreter, step by step

\* In SpecExec the variable holds the locals of simulateYoProgram at a
\* point of its while loop: state, the instructions run from that point
\* (steps) and the entries pushed from that point (trace).

\* The largest and the smallest 64-bit value.
MaxInt64 == [i \in BigIdx |-> IF i <= 7 THEN 255 ELSE IF i = 8 THEN 127 ELSE 0]
MinInt64 == asIntN64([i \in BigIdx |-> IF i = 8 THEN 128 ELSE 0])

\* The bytes of an instruction: the opcode byte, the register byte and the
\* 8 bytes of an operand.
Op(icode, ifun) == 16 * icode + ifun
Regs(rA, rB) == 16 * rA + rB
Quad(value) == [i \in 1 .. 8 |-> value[i]]

\* Register values left by earlier instructions.
Samples == { ZeroBig, NatToBig(1), NegBig(NatToBig(1)), MaxInt64, MinInt64 }
\* Stack pointers: the initial one, two inside memory, the bottom, the
\* last byte, and a value far outside memory.
StackSamples ==
  { NatToBig(MEMORY_SIZE), NatToBig(64), NatToBig(8), ZeroBig,
    NatToBig(MEMORY_SIZE - 1), MinInt64 }
\* The flags an ALU operation can leave: a result is not both zero and
\* negative.
Flags ==
  { f \in [ZF : BOOLEAN, SF : BOOLEAN, OF : BOOLEAN] : ~(f.ZF /\ f.SF) }
NoFlags == [ZF |-> FALSE, SF |-> FALSE, OF |-> FALSE]

\* A case: a program text, and the values of rax, rcx, rsp and of the flags
\* at the point the exploration starts from.
Case(program, a, c, sp, cc) ==
  [program |-> program, rax |-> a, rcx |-> c, rsp |-> sp, flags |-> cc]

\* opq %rax,%rcx and opq %rax,%rax for every function code.
AluCases ==
  { Case(<< Line(0, << Op(OPQ, ifun), Regs(0, rB) >>) >>, a, c,
         NatToBig(MEMORY_SIZE), NoFlags) :
      ifun \in 0 .. 15, rB \in { 0, 1 }, a \in Samples, c \in Samples }

\* cmovXX %rax,%rcx for every function code and every setting of the flags.
MoveCases ==
  { Case(<< Line(0, << Op(RRMOVQ, ifun), Regs(0, 1) >>) >>, a, ZeroBig,
         NatToBig(MEMORY_SIZE), cc) :
      ifun \in 0 .. 15, a \in { NatToBig(1), MinInt64 }, cc \in Flags }

\* The destinations encoded in a jump or call: its own address, an address
\* further on, the last byte of memory, the memory size, and 64-bit values
\* far outside memory.
Destinations ==
  { Imm(0), Imm(32), Imm(MEMORY_SIZE - 1), Imm(MEMORY_SIZE),
    Quad(MinInt64), Quad(NegBig(NatToBig(1))) }

\* jXX for every function code, every setting of the flags and every
\* destination.
JumpCases ==
  { Case(<< Line(0, << Op(JXX, ifun) >> \o destination) >>, ZeroBig, ZeroBig,
         NatToBig(MEMORY_SIZE), cc) :
      ifun \in 0 .. 15, destination \in Destinations, cc \in Flags }

\* Every opcode byte, followed by the register byte of %rax,%rcx and an
\* operand.
OpcodeCases ==
  { Case(<< Line(0, << opcode, Regs(0, 1) >> \o Imm(32)) >>, NatToBig(1),
         ZeroBig, NatToBig(MEMORY_SIZE), NoFlags) :
      opcode \in 0 .. 255 }

\* Each of the 12 instructions placed 1, 2, 9 or 10 bytes before the end of
\* memory, cut where memory ends, on %rax,%rcx and on no register.
EdgeCases ==
  { Case(<< Line(MEMORY_SIZE - room,
                 SubSeq(IF icode \in { JXX, CALL }
                        THEN << Op(icode, 0) >> \o Imm(32)
                        ELSE << Op(icode, 0), regByte >> \o Imm(32),
                        1, IF icode \in { JXX, CALL } /\ room = 10 THEN 9
                           ELSE room)) >>,
         NatToBig(1), ZeroBig, NatToBig(MEMORY_SIZE), NoFlags) :
      icode \in HALT .. POPQ, room \in { 1, 2, 9, 10 },
      regByte \in { Regs(0, 1), Regs(15, 15) } }

\* rmmovq %rax,D(%rcx) and mrmovq D(%rcx),%rax.
MemoryCases ==
  { Case(<< Line(0, << Op(icode, 0), Regs(0, 1) >> \o displacement) >>,
         NatToBig(1), base, NatToBig(MEMORY_SIZE), NoFlags) :
      icode \in { RMMOVQ, MRMOVQ },
      base \in Samples,
      displacement \in { Imm(32), Imm(MEMORY_SIZE - 8), Imm(MEMORY_SIZE - 7),
                         Quad(NatToBig(1)), Quad(MinInt64) } }

\* pushq r then popq r, for r one of %rax, %rcx, %rsp.
PushPopCases ==
  { Case(<< Line(0, << Op(PUSHQ, 0), Regs(r, 15),
                       Op(POPQ, 0), Regs(r, 15) >>) >>,
         a, ZeroBig, sp, NoFlags) :
      r \in { 0, 1, 4 }, a \in Samples, sp \in StackSamples }

\* popq r and ret, with a word stored at address 64.
PopCases ==
  { Case(<< Line(0, code), Line(64, word) >>, ZeroBig, ZeroBig, sp, NoFlags) :
      code \in { << Op(POPQ, 0), Regs(0, 15) >>, << Op(POPQ, 0), Regs(4, 15) >>,
                 << Op(RET, 0) >> },
      word \in Destinations, sp \in StackSamples }

\* call with every destination, and ret at address 32.
CallCases ==
  { Case(<< Line(0, << Op(CALL, 0) >> \o destination),
            Line(32, << Op(RET, 0) >>) >>,
         ZeroBig, ZeroBig, sp, NoFlags) :
      destination \in Destinations, sp \in StackSamples }

\* A jump to a call in the last 9 bytes of memory, whose destination is a
\* ret in the byte before it.
LastCallCases ==
  { Case(<< Line(0, << Op(JXX, CC_YES) >> \o Imm(MEMORY_SIZE - 9)),
            Line(MEMORY_SIZE - 10,
                 << Op(RET, 0), Op(CALL, 0) >> \o Imm(MEMORY_SIZE - 10)) >>,
         ZeroBig, ZeroBig, NatToBig(64), NoFlags) }

\* The program that is a halt byte at address 0, from the initial
\* registers and flags.
HaltCases ==
  { Case(ProgHalt, ZeroBig, ZeroBig, NatToBig(MEMORY_SIZE), NoFlags) }

\* The instructions that are not ALU operations, from every setting of the
\* flags, with %rax negative, %rcx zero and the stack at 64: irmovq,
\* rmmovq, mrmovq; pushq, popq, nop; call, ret, halt; and an irmovq to no
\* register.
FlagCases ==
  { Case(program, MinInt64, ZeroBig, NatToBig(64), cc) :
      program \in
        { << Line(0, << Op(IRMOVQ, 0), Regs(15, 1) >> \o Imm(0)),
             Line(10, << Op(RMMOVQ, 0), Regs(0, 1) >> \o Imm(128)),
             Line(20, << Op(MRMOVQ, 0), Regs(0, 1) >> \o Imm(128)) >>,
          << Line(0, << Op(PUSHQ, 0), Regs(0, 15), Op(POPQ, 0), Regs(1, 15),
                        Op(NOP, 0) >>) >>,
          << Line(0, << Op(CALL, 0) >> \o Imm(32) \o << Op(HALT, 0) >>),
             Line(32, << Op(RET, 0) >>) >>,
          << Line(0, << Op(IRMOVQ, 0), Regs(15, 15) >> \o Imm(0)) >> },
      cc \in Flags }

ExecCases ==
  AluCases \cup MoveCases \cup JumpCases \cup OpcodeCases \cup EdgeCases
    \cup MemoryCases \cup PushPopCases \cup PopCases \cup CallCases
    \cup LastCallCases \cup HaltCases \cup FlagCases

\* The locals of simulateYoProgram for a case.
Machine(case) ==
  LET parsed == parseYoProgram(case.program)
      state ==
        [InitialSimulationState(parsed) EXCEPT
           !.registers["rax"] = case.rax,
           !.registers["rcx"] = case.rcx,
           !.registers["rsp"] = case.rsp,
           !.conditionCodes = case.flags]
  IN  [state |-> state,
       steps |-> 0,
       trace |-> << serializeState(state, parsed.dirtyWords) >>]

InitExec == \E case \in ExecCases : cpu = Machine(case)

\* A faulty pass of the loop that goes on whatever the status is; the
\* status property C32 must tell it from Execute.
ExecuteWhateverStatus ==
  /\ cpu.steps < MAX_SIMULATION_STEPS
  /\ \E o \in { StepOnce(cpu.state) } :
       cpu' = [state |-> o.state,
               steps |-> cpu.steps + 1,
               trace |-> Append(cpu.trace, o.entry)]

\* One pass of the while loop.
Execute ==
  /\ cpu.steps < MAX_SIMULATION_STEPS
  /\ cpu.state.stat = AOK
  /\ \E o \in { StepOnce(cpu.state) } :
       cpu' = [state |-> o.state,
               steps |-> cpu.steps + 1,
               trace |-> Append(cpu.trace, o.entry)]

\* The loop has stopped at its limit: the status is forced to HLT and a
\* last entry pushed.
Finish ==
  /\ ~(cpu.steps < MAX_SIMULATION_STEPS)
  /\ cpu.state.stat = AOK
  /\ cpu' = [cpu EXCEPT
               !.state.stat = HLT,
               !.trace = Append(@, serializeState(
                                     [cpu.state EXCEPT !.stat = HLT], {}))]

NextExec ==
  \/ Execute
  \/ Finish

SpecExec == InitExec /\ [][NextExec]_vars

\* -------------------------------------------- the simulator page

\* In SpecTimer the variable holds the component SimulatorPage instead of
\* a bare Y86CPU: cpuRef.current (session), the intervals that setInterval
\* started and clearInterval has not cleared, runIntervalRef.current (0
\* for null), and the React state isRunning, isPaused, pc, status, cycle
\* and executionHistory.  The other React state (registers, flags, memory,
\* logs, breakpoints, the current snapshot id and the previous values) is
\* a copy for display that no handler modelled here reads.  The fields
\* paused and fresh are history: pause has been invoked, respectively a
\* load has succeeded, and run, step and continue have not been invoked
\* since.

\* The intervals alive at once, and the texts in the editor.
MaxIntervals == 2
PagePrograms == { ProgLoop, ProgCallAdr, ProgBadAddr }
PageBreakpoints == { 10 }

getStatusName(c) ==
  CASE c.state.stat = AOK -> "AOK"
    [] c.state.stat = HLT -> "HLT"
    [] c.state.stat = ADR -> "ADR"
    [] c.state.stat = INS -> "INS"
    [] OTHER -> "UNKNOWN"

NewPage ==
  [session |-> NewCPU,
   intervals |-> {},
   runIntervalRef |-> 0,
   isRunning |-> FALSE,
   isPaused |-> FALSE,
   pc |-> 0,
   status |-> "AOK",
   cycle |-> 0,
   executionHistory |-> << >>,
   paused |-> FALSE,
   fresh |-> FALSE]

syncStateFromCPU(page) ==
  [page EXCEPT !.pc = page.session.state.pc,
               !.status = getStatusName(page.session),
               !.cycle = page.session.state.cycle,
               !.executionHistory = page.session.executionHistory]

\* The id setInterval returns: one that no live interval has.
FreeIntervals(page) == (1 .. MaxIntervals) \ page.intervals
setInterval(page) ==
  CHOOSE id \in FreeIntervals(page) : \A other \in FreeIntervals(page) : id <= other

\* if (runIntervalRef.current) { clearInterval(...); ... = null }
clearRunInterval(page) ==
  IF page.runIntervalRef # 0
  THEN [page EXCEPT !.intervals = @ \ {page.runIntervalRef},
                    !.runIntervalRef = 0]
  ELSE page

\* loadProgram runs to its end before any timer or key event: its await
\* is of a value already computed (runRemoteProgram calls
\* simulateYoProgram), so only microtasks separate its two halves.
handleLoad(page, code, now) ==
  Let(loadProgram(page.session, code, now),
      LAMBDA r :
        IF ~r.ret THEN [page EXCEPT !.session = r.cpu]
        ELSE [syncStateFromCPU([page EXCEPT !.session = r.cpu])
                EXCEPT !.isRunning = FALSE, !.isPaused = FALSE])

handleStep(page, now) ==
  IF page.session.running
  THEN syncStateFromCPU([page EXCEPT !.session = step(page.session, now).cpu])
  ELSE page

\* The callback handleRun hands to setInterval.
intervalCallback(page, now) ==
  IF page.session.running
  THEN syncStateFromCPU([page EXCEPT !.session = step(page.session, now).cpu])
  ELSE [clearRunInterval(page) EXCEPT !.isRunning = FALSE]

handleRun(page) ==
  IF ~page.session.running THEN page
  ELSE [page EXCEPT !.isRunning = TRUE,
                    !.isPaused = FALSE,
                    !.runIntervalRef = setInterval(page),
                    !.intervals = @ \cup {setInterval(page)}]

handlePause(page) ==
  [clearRunInterval(page) EXCEPT !.isPaused = TRUE, !.isRunning = FALSE]

handleReset(page) ==
  Let(clearRunInterval(page),
      LAMBDA cleared :
        [syncStateFromCPU([cleared EXCEPT !.session = reset(cleared.session)])
           EXCEPT !.isRunning = FALSE, !.isPaused = FALSE])

handleBreakpointToggle(page, address) ==
  IF address \in DOMAIN page.session.breakpoints
  THEN [page EXCEPT !.session = removeBreakpoint(page.session, address).cpu]
  ELSE [page EXCEPT !.session = addBreakpoint(page.session, address, Undefined)]

handleContinue(page) ==
  Let(syncStateFromCPU(
        [page EXCEPT !.session = continueFromBreakpoint(page.session)]),
      LAMBDA continued :
        IF continued.session.running THEN handleRun(continued)
        ELSE continued)

\* The records of the exported document; of each record the cycle, the
\* status name and the flags are kept.
handleExportHistory(page) ==
  [k \in 1 .. Len(page.executionHistory) |->
     [cycle |-> page.executionHistory[k].cycle,
      stat |-> IF page.executionHistory[k].stat = 1 THEN "AOK" ELSE "HLT",
      conditionCodes |-> page.executionHistory[k].conditionCodes]]

PageReadings ==
  { t \in 0 .. MaxTime :
      \A k \in 1 .. Len(cpu.session.executionHistory) :
        cpu.session.executionHistory[k].timestamp <= t }

\* The cap that keeps the hit counters finite.
WithinHits(page) ==
  \A a \in DOMAIN page.session.breakpoints :
    page.session.breakpoints[a].hitCount <= MaxHits

InitPage == cpu = NewPage

HandleLoad ==
  \E code \in PagePrograms, now \in PageReadings :
    \E page \in { handleLoad(cpu, code, now) } :
      cpu' = [page EXCEPT !.fresh = (page.session.trace # << >>)]

HandleStep ==
  \E now \in PageReadings :
    \E page \in { handleStep(cpu, now) } :
      /\ WithinHits(page)
      /\ cpu' = [page EXCEPT !.paused = FALSE, !.fresh = FALSE]

\* F5 or the run button; the cap keeps the live intervals finite.
HandleRun ==
  /\ FreeIntervals(cpu) # {}
  /\ cpu' = [handleRun(cpu) EXCEPT !.paused = FALSE, !.fresh = FALSE]

HandlePause == cpu' = [handlePause(cpu) EXCEPT !.paused = TRUE]

HandleReset == cpu' = [handleReset(cpu) EXCEPT !.fresh = FALSE]

HandleBreakpointToggle ==
  \E address \in PageBreakpoints : cpu' = handleBreakpointToggle(cpu, address)

HandleContinue ==
  /\ FreeIntervals(cpu) # {}
  /\ cpu' = [handleContinue(cpu) EXCEPT !.paused = FALSE, !.fresh = FALSE]

\* 100 ms have passed for one of the live intervals.
Tick ==
  /\ cpu.intervals # {}
  /\ \E now \in PageReadings :
       \E page \in { intervalCallback(cpu, now) } :
         /\ WithinHits(page)
         /\ cpu' = page

NextTimer ==
  \/ HandleLoad
  \/ HandleStep
  \/ HandleRun
  \/ HandlePause
  \/ HandleReset
  \/ HandleBreakpointToggle
  \/ HandleContinue
  \/ Tick

SpecTimer == InitPage /\ [][NextTimer]_vars

\* -------------------------------------------- loads in flight

\* In SpecLoads the variable holds a Y86CPU (session) and the calls of
\* loadProgram that have reached their await and not resumed (pending, in
\* the order they will resume): each holds the text it was called with,
\* whose result is RemoteResult of that text.

\* The calls in flight at once.
MaxPending == 2

InitLoads == cpu = [session |-> NewCPU, pending |-> << >>]

\* loadProgram is called and runs to its await.
LoadCalled ==
  /\ Len(cpu.pending) < MaxPending
  /\ \E p \in SessionPrograms :
       cpu' = [session |-> loadProgramCall(cpu.session, p).cpu,
               pending |-> Append(cpu.pending, p)]

\* The oldest call in flight resumes after its await and runs to its end.
LoadResumed ==
  /\ cpu.pending # << >>
  /\ \E now \in { t \in 0 .. MaxTime :
                    \A k \in 1 .. Len(cpu.session.executionHistory) :
                      cpu.session.executionHistory[k].timestamp <= t } :
       cpu' = [session |-> loadProgramResume(
                             cpu.session, RemoteResult[Head(cpu.pending)],
                             now).cpu,
               pending |-> Tail(cpu.pending)]

\* step() between loads: the awaits resume before any later event.
StepBetweenLoads ==
  /\ cpu.pending = << >>
  /\ \E now \in { t \in 0 .. MaxTime :
                    \A k \in 1 .. Len(cpu.session.executionHistory) :
                      cpu.session.executionHistory[k].timestamp <= t } :
       cpu' = [cpu EXCEPT !.session = step(cpu.session, now).cpu]

NextLoads ==
  \/ LoadCalled
  \/ LoadResumed
  \/ StepBetweenLoads

SpecLoads == InitLoads /\ [][NextLoads]_vars

\* ------------------------------------------------------------ properties

NoBreakpoints == [a \in {} |-> 0]

\* The program interpreted directly: executeInstruction applied from the
\* initial state until the status leaves AOK or MAX_SIMULATION_STEPS
\* instructions have run, then forced to HLT.
RECURSIVE Interpret(_, _)
Interpret(state, steps) ==
  IF steps < MAX_SIMULATION_STEPS /\ state.stat = AOK
  THEN Let(executeInstruction(state, {}),
           LAMBDA r :
             Let(IF r.err # 0 THEN [r.state EXCEPT !.stat = r.err]
                 ELSE r.state,
                 LAMBDA next : Interpret(next, steps + 1)))
  ELSE [state EXCEPT !.stat = IF @ = AOK THEN HLT ELSE @]

DirectFinalState ==
  [p \in Programs |->
     LET parsed == parseYoProgram(p)
     IN  IF parsed.thrown THEN << >>
         ELSE Interpret(InitialSimulationState(parsed), 0)]

\* The texts that load, and the one whose trace the session holds.
Loadable == { p \in Programs : ~RemoteResult[p].thrown }
LoadedFrom(p) == p \in Loadable /\ cpu.trace = RemoteResult[p].trace

\* C1: for every text that loads, with no breakpoints set, once step()
\* returns false the session's pc, status, registers and flags are those of
\* the final state of the program interpreted directly.
C1_ReplayMatchesInterpreter ==
  \A p \in Programs :
    (LoadedFrom(p) /\ cpu.breakpoints = NoBreakpoints) =>
      \A now \in Readings :
        LET r == step(cpu, now)
        IN  ~r.ret =>
              /\ r.cpu.state.pc = DirectFinalState[p].pc
              /\ r.cpu.state.stat = DirectFinalState[p].stat
              /\ r.cpu.state.registers = DirectFinalState[p].registers
              /\ r.cpu.state.conditionCodes = DirectFinalState[p].conditionCodes

\* A replay of at least three steps has ended, on a negative register.
C1_Witness ==
  /\ cpu.breakpoints = NoBreakpoints
  /\ cpu.currentIndex >= 3
  /\ cpu.currentIndex = Len(cpu.trace) - 1
  /\ ~cpu.running
  /\ IsNegBig(cpu.state.registers["rax"])

\* C2: the trace of a loaded program has between 2 and
\* MAX_SIMULATION_STEPS + 2 entries, every entry but the last has status
\* AOK, and when MAX_SIMULATION_STEPS instructions complete with status AOK
\* exactly one more entry follows, with status HLT and the pc, registers
\* and flags of the entry before it; otherwise the run ended by itself
\* within the limit.
C2_TraceBounded ==
  cpu.trace # << >> =>
    LET trace == cpu.trace
        n == Len(trace)
    IN  /\ n >= 2
        /\ n <= MAX_SIMULATION_STEPS + 2
        /\ \A k \in 1 .. n - 1 : trace[k].STAT = AOK
        /\ IF n >= MAX_SIMULATION_STEPS + 1
              /\ trace[MAX_SIMULATION_STEPS + 1].STAT = AOK
           THEN /\ n = MAX_SIMULATION_STEPS + 2
                /\ trace[n].STAT = HLT
                /\ trace[n].PC = trace[n - 1].PC
                /\ trace[n].REG = trace[n - 1].REG
                /\ trace[n].CC = trace[n - 1].CC
           ELSE /\ n <= MAX_SIMULATION_STEPS + 1
                /\ trace[n].STAT # AOK

\* The trace of a program that loops forever, replayed to its forced end.
C2_Witness ==
  /\ Len(cpu.trace) = MAX_SIMULATION_STEPS + 2
  /\ cpu.currentIndex = Len(cpu.trace) - 1
  /\ cpu.state.stat = HLT

\* C3: whenever isRunning() is false, step() leaves pc, status, registers,
\* flags, memory, cycle, cursor and snapshot history unchanged.
C3_StepNoOpWhenNotRunning ==
  ~cpu.running =>
    \A now \in Readings :
      LET r == step(cpu, now)
      IN  /\ r.cpu.state = cpu.state
          /\ r.cpu.currentIndex = cpu.currentIndex
          /\ r.cpu.executionHistory = cpu.executionHistory

\* The entry step() applies next, when there is one.
NextEntry == cpu.trace[cpu.currentIndex + 2]

\* C4: when a step() lands on a pc at which a breakpoint fires, the
\* visible status is HLT, isRunning() is false and step() returns false,
\* while pc, registers, flags, memory, cycle and cursor are those of the
\* entry just applied, and the entry's own status is the one remembered.
C4_BreakpointPause ==
  \A now \in Readings :
    LET r == step(cpu, now)
    IN  r.hit =>
          /\ r.cpu.state.stat = HLT
          /\ ~r.cpu.running
          /\ r.ret = FALSE
          /\ r.cpu.lastBreakpointHit # << >>
          /\ r.cpu.state.pc = NextEntry.PC
          /\ r.cpu.state.registers = convertRegisters(NextEntry.REG)
          /\ r.cpu.state.conditionCodes = convertFlags(NextEntry.CC)
          /\ r.cpu.state.memory = convertMemory(NextEntry.MEM, cpu.state.memory)
          /\ r.cpu.state.cycle = cpu.currentIndex + 1
          /\ r.cpu.currentIndex = cpu.currentIndex + 1
          /\ r.cpu.statBeforeBreakpoint = STATUS_MAP(NextEntry.STAT)

\* A breakpoint has just fired on an entry whose own status is AOK, with
\* entries remaining.
C4_Witness ==
  /\ cpu.lastBreakpointHit # << >>
  /\ cpu.lastBreakpointHit[1].cycle = cpu.currentIndex
  /\ cpu.state.cycle = cpu.currentIndex
  /\ cpu.state.stat = HLT
  /\ cpu.statBeforeBreakpoint = AOK
  /\ hasNextStep(cpu)
  /\ ~cpu.running

\* C5: with a breakpoint hit pending, continueFromBreakpoint() sets the
\* visible status to the remembered one, makes isRunning() true iff that
\* status is AOK and the cursor is before the last entry, leaves the rest
\* of the state alone, and the next step() applies the entry after the
\* cursor; with no hit pending it changes nothing.
C5_ContinueResumes ==
  LET c == continueFromBreakpoint(cpu)
  IN  IF cpu.lastBreakpointHit # << >>
      THEN /\ c.state = [cpu.state EXCEPT !.stat = cpu.statBeforeBreakpoint]
           /\ c.running = (cpu.statBeforeBreakpoint = AOK
                           /\ cpu.currentIndex < Len(cpu.trace) - 1)
           /\ c.lastBreakpointHit = << >>
           /\ c.currentIndex = cpu.currentIndex
           /\ c.trace = cpu.trace
           /\ c.executionHistory = cpu.executionHistory
           /\ c.breakpoints = cpu.breakpoints
           /\ c.running =>
                \A now \in Readings :
                  LET r == step(c, now)
                  IN  /\ r.cpu.currentIndex = cpu.currentIndex + 1
                      /\ r.cpu.state.pc = NextEntry.PC
                      /\ r.cpu.state.registers = convertRegisters(NextEntry.REG)
      ELSE c = cpu

\* A session resumed after a hit: it is advancing past an enabled
\* breakpoint at the current pc that has fired, with no hit pending.
C5_Witness ==
  /\ cpu.lastBreakpointHit = << >>
  /\ cpu.running
  /\ cpu.currentIndex >= 1
  /\ cpu.state.stat = AOK
  /\ cpu.state.pc \in DOMAIN cpu.breakpoints
  /\ cpu.breakpoints[cpu.state.pc].enabled
  /\ cpu.breakpoints[cpu.state.pc].condition = Undefined
  /\ cpu.breakpoints[cpu.state.pc].hitCount = 1

\* What each condition of Conditions says of a register file: an absent
\* or empty condition is no condition, "rax==2" and "rcx <= -5" are well
\* formed, "rax=2" is malformed.
ConditionHolds(condition, registers) ==
  IF condition \in { Undefined, CondEmpty } THEN TRUE
  ELSE IF condition = CondRaxEq2 THEN registers["rax"] = NatToBig(2)
  ELSE IF condition = CondRcxLeM5
       THEN \/ registers["rcx"] = NegBig(NatToBig(5))
            \/ LessBig(registers["rcx"], NegBig(NatToBig(5)))
  ELSE FALSE

\* Whether the breakpoint held at address a is to fire on the entry.
Satisfied(a, entry) ==
  /\ entry.PC = a
  /\ a \in DOMAIN cpu.breakpoints
  /\ cpu.breakpoints[a].enabled
  /\ ConditionHolds(cpu.breakpoints[a].condition, convertRegisters(entry.REG))

\* C6: during step(), a breakpoint fires iff one is held at the new pc, it
\* is enabled, and it has no condition or a well-formed condition that is
\* true of the registers just applied; a step() that applies no entry fires
\* none.
C6_FiresIff ==
  \A now \in Readings :
    LET r == step(cpu, now)
    IN  IF hasNextStep(cpu)
        THEN r.hit <=> Satisfied(NextEntry.PC, NextEntry)
        ELSE ~r.hit

\* A breakpoint with a well-formed condition on a negative value has just
\* fired.
C6_Witness ==
  /\ cpu.lastBreakpointHit # << >>
  /\ cpu.lastBreakpointHit[1].cycle = cpu.currentIndex
  /\ cpu.state.pc \in DOMAIN cpu.breakpoints
  /\ cpu.breakpoints[cpu.state.pc].condition = CondRcxLeM5
  /\ cpu.breakpoints[cpu.state.pc].hitCount = 1
  /\ cpu.state.stat = HLT

\* The run has come to its end: not advancing and no hit pending.
RunEnd == ~cpu.running /\ cpu.lastBreakpointHit = << >>

\* The entries applied by step() on which the breakpoint at a is to fire.
FiringEntries(a) ==
  { k \in 2 .. Len(cpu.trace) : Satisfied(a, cpu.trace[k]) }

\* C7: in a run from load to the end of the trace, with
\* continueFromBreakpoint after each hit, a step raises by one the hitCount
\* of the breakpoint that fires and leaves every other hitCount as it was,
\* and at the end of the run each hitCount is the number of entries
\* applied by step() on which the breakpoint was to fire: 1 when there is
\* exactly one.
C7_HitCount ==
  /\ [] (RunEnd =>
           /\ cpu.currentIndex = Len(cpu.trace) - 1
           /\ \A a \in DOMAIN cpu.breakpoints :
                cpu.breakpoints[a].hitCount = Cardinality(FiringEntries(a)))
  /\ [][ \A a \in DOMAIN cpu.breakpoints :
           cpu'.breakpoints[a].hitCount =
             cpu.breakpoints[a].hitCount +
               (IF /\ cpu'.lastBreakpointHit # cpu.lastBreakpointHit
                   /\ cpu'.lastBreakpointHit # << >>
                   /\ cpu'.lastBreakpointHit[1].breakpoint = a
                THEN 1 ELSE 0) ]_vars

\* A run of the looping program has ended with the conditional breakpoint
\* at 12, satisfied on one entry, counted once.
C7_Witness ==
  /\ RunEnd
  /\ Len(cpu.trace) = MAX_SIMULATION_STEPS + 2
  /\ cpu.currentIndex = Len(cpu.trace) - 1
  /\ 12 \in DOMAIN cpu.breakpoints
  /\ cpu.breakpoints[12].condition = CondRaxEq2
  /\ Cardinality(FiringEntries(12)) = 1
  /\ cpu.breakpoints[12].hitCount = 1

\* C8: reset() and loadProgram() leave every breakpoint as it was, and a
\* breakpoint is dropped or started again only by removeBreakpoint,
\* clearAllBreakpoints or addBreakpoint at its address.
C8_BreakpointsPersist ==
  /\ [] /\ reset(cpu).breakpoints = cpu.breakpoints
        /\ \A p \in SessionPrograms, now \in Readings :
             loadProgram(cpu, p, now).cpu.breakpoints = cpu.breakpoints
  /\ [][ \A a \in DOMAIN cpu.breakpoints :
           \/ /\ a \in DOMAIN cpu'.breakpoints
              /\ cpu'.breakpoints[a].address = cpu.breakpoints[a].address
              /\ cpu'.breakpoints[a].condition = cpu.breakpoints[a].condition
              /\ cpu'.breakpoints[a].hitCount >= cpu.breakpoints[a].hitCount
           \/ cpu' = removeBreakpoint(cpu, a).cpu
           \/ cpu' = clearAllBreakpoints(cpu)
           \/ \E cond \in SessionConditions :
                cpu' = addBreakpoint(cpu, a, cond) ]_vars

\* An unloaded session that still holds a breakpoint that has fired.
C8_Witness ==
  /\ cpu.trace = << >>
  /\ cpu.executionHistory = << >>
  /\ \E a \in DOMAIN cpu.breakpoints : cpu.breakpoints[a].hitCount = 1

\* C9: restoreSnapshot with the id of a snapshot of the history returns
\* true, sets pc, status, registers, flags, memory and cycle to the
\* snapshot's, the cursor to its cycle, and running to whether that status
\* is AOK and the cursor is before the last entry; the status is the one
\* of the trace entry at that cycle.
C9_RestoreSnapshot ==
  \A k \in 1 .. Len(cpu.executionHistory) :
    LET snapshot == cpu.executionHistory[k]
        r == restoreSnapshot(cpu, snapshot.id)
    IN  /\ r.ret
        /\ r.cpu.state = [pc |-> snapshot.pc,
                          stat |-> snapshot.stat,
                          registers |-> snapshot.registers,
                          conditionCodes |-> snapshot.conditionCodes,
                          memory |-> snapshot.memory,
                          cycle |-> snapshot.cycle]
        /\ r.cpu.currentIndex = snapshot.cycle
        /\ r.cpu.running = (snapshot.stat = AOK
                            /\ snapshot.cycle < Len(cpu.trace) - 1)
        /\ r.cpu.state.stat = STATUS_MAP(cpu.trace[snapshot.cycle + 1].STAT)

\* A session restored to the cycle of a breakpoint hit, from a later
\* cycle: the status is the entry's AOK, not the forced HLT.
C9_Witness ==
  /\ cpu.lastBreakpointHit # << >>
  /\ cpu.lastBreakpointHit[1].cycle = cpu.currentIndex
  /\ cpu.state.stat = AOK
  /\ cpu.running
  /\ Len(cpu.executionHistory) > cpu.currentIndex + 1

\* C10: restoreSnapshot with an id no snapshot has, and removeBreakpoint
\* or toggleBreakpoint at an address holding no breakpoint, return false
\* and leave every field of the session as it was.
C10_LookupFailures ==
  /\ \A id \in SnapshotIds :
       (\A k \in 1 .. Len(cpu.executionHistory) :
          cpu.executionHistory[k].id # id)
       => restoreSnapshot(cpu, id) = [cpu |-> cpu, ret |-> FALSE]
  /\ \A a \in BreakpointAddresses :
       a \notin DOMAIN cpu.breakpoints
       => /\ removeBreakpoint(cpu, a) = [cpu |-> cpu, ret |-> FALSE]
          /\ toggleBreakpoint(cpu, a) = [cpu |-> cpu, ret |-> FALSE]

\* A loaded, advancing session with snapshots, one breakpoint held and
\* one address free, so that each of the three lookups can fail.
C10_Witness ==
  /\ cpu.running
  /\ Len(cpu.executionHistory) >= 2
  /\ 10 \in DOMAIN cpu.breakpoints
  /\ 12 \notin DOMAIN cpu.breakpoints
  /\ \E id \in SnapshotIds :
       \A k \in 1 .. Len(cpu.executionHistory) :
         cpu.executionHistory[k].id # id


\* The instruction a state is about to execute, as its bytes say: the
\* opcode byte and the two halves of the register byte.
OpcodeAt(state) == MemRead(state.memory, state.pc)
RegA(state) == MemRead(state.memory, state.pc + 1) \div 16
RegB(state) == MemRead(state.memory, state.pc + 1) % 16
\* The loop is about to execute an ALU operation of the function code on
\* two registers.
AtOpq(ifun) ==
  /\ cpu.state.stat = AOK
  /\ cpu.steps < MAX_SIMULATION_STEPS
  /\ cpu.state.pc >= 0
  /\ cpu.state.pc + 1 < MEMORY_SIZE
  /\ OpcodeAt(cpu.state) = Op(OPQ, ifun)
  /\ RegA(cpu.state) \in 0 .. 14
  /\ RegB(cpu.state) \in 0 .. 14
\* Its operands.
SrcValue == cpu.state.registers[REGISTER_KEYS[RegA(cpu.state) + 1]]
DstValue == cpu.state.registers[REGISTER_KEYS[RegB(cpu.state) + 1]]
\* x lies outside [-2^63, 2^63 - 1].
OutOfInt64(x) == LessBig(x, MinInt64) \/ LessBig(MaxInt64, x)

\* The entry before the last, and the last: the state an instruction
\* started from and the state it left.
Before == cpu.trace[Len(cpu.trace) - 1]
After == cpu.trace[Len(cpu.trace)]

\* C11: addq sets dst to dst + src wrapped to 64 bits, ZF iff the result is
\* zero, SF iff it is negative, OF iff the exact sum is outside
\* [-2^63, 2^63 - 1]; 0x7FFFFFFFFFFFFFFF + 1 gives 0x8000000000000000 with
\* OF and SF set and ZF clear.
C11_AddqFlags ==
  AtOpq(ALU_ADD) =>
    LET sum == AddBig(DstValue, SrcValue)
        r == executeInstruction(cpu.state, {})
        result == r.state.registers[REGISTER_KEYS[RegB(cpu.state) + 1]]
    IN  /\ r.err = 0
        /\ result = asIntN64(sum)
        /\ r.state.conditionCodes.ZF = (result = ZeroBig)
        /\ r.state.conditionCodes.SF = LessBig(result, ZeroBig)
        /\ r.state.conditionCodes.OF = OutOfInt64(sum)
        /\ ({ SrcValue, DstValue } = { MaxInt64, NatToBig(1) } =>
              /\ result = MinInt64
              /\ r.state.conditionCodes = [ZF |-> FALSE, SF |-> TRUE, OF |-> TRUE])

\* addq %rax,%rcx has run on 1 and 0x7FFFFFFFFFFFFFFF and left
\* 0x8000000000000000 with OF and SF.
C11_Witness ==
  /\ Len(cpu.trace) >= 2
  /\ MemRead(cpu.state.memory, Before.PC) = Op(OPQ, ALU_ADD)
  /\ MemRead(cpu.state.memory, Before.PC + 1) = Regs(0, 1)
  /\ toBigInt(Before.REG["rax"]) = NatToBig(1)
  /\ toBigInt(Before.REG["rcx"]) = MaxInt64
  /\ cpu.state.registers["rcx"] = MinInt64
  /\ cpu.state.conditionCodes = [ZF |-> FALSE, SF |-> TRUE, OF |-> TRUE]
  /\ cpu.state.stat = AOK

\* C12: subq sets dst to dst - src wrapped to 64 bits and OF iff the exact
\* difference dst - src is outside [-2^63, 2^63 - 1], for every pair of
\* operands, src = -2^63 included.
C12_SubqFlags ==
  AtOpq(ALU_SUB) =>
    LET difference == SubBig(DstValue, SrcValue)
        r == executeInstruction(cpu.state, {})
        result == r.state.registers[REGISTER_KEYS[RegB(cpu.state) + 1]]
    IN  /\ r.err = 0
        /\ result = asIntN64(difference)
        /\ r.state.conditionCodes.OF = OutOfInt64(difference)

\* The loop is about to execute an instruction.
AtInstruction ==
  /\ cpu.state.stat = AOK
  /\ cpu.steps < MAX_SIMULATION_STEPS
\* The function codes defined for an instruction code: the condition codes
\* for a move and a jump, the ALU operations for an ALU instruction, 0 for
\* every other instruction, none for an instruction code that is not one
\* of the 12.
DefinedFunctions(icode) ==
  IF icode \in { RRMOVQ, JXX }
  THEN { CC_YES, CC_LE, CC_L, CC_E, CC_NE, CC_GE, CC_G }
  ELSE IF icode = OPQ THEN { ALU_ADD, ALU_SUB, ALU_AND, ALU_XOR }
  ELSE IF icode \in { HALT, NOP, IRMOVQ, RMMOVQ, MRMOVQ, CALL, RET, PUSHQ, POPQ }
       THEN { 0 }
  ELSE { }

\* C13: executing an opcode byte whose instruction code is not one of the
\* 12 instructions, or whose function code is not defined for the
\* instruction, ends the step with status INS.
C13_UndefinedOpcodeIsINS ==
  (/\ AtInstruction
   /\ cpu.state.pc >= 0
   /\ cpu.state.pc < MEMORY_SIZE
   /\ OpcodeAt(cpu.state) % 16 \notin DefinedFunctions(OpcodeAt(cpu.state) \div 16))
  => StepOnce(cpu.state).state.stat = INS

\* The register specifiers an instruction uses name registers.
RegistersValid(state) ==
  LET icode == OpcodeAt(state) \div 16
  IN  IF icode \in { RRMOVQ, RMMOVQ, MRMOVQ, OPQ }
      THEN RegA(state) \in 0 .. 14 /\ RegB(state) \in 0 .. 14
      ELSE IF icode = IRMOVQ THEN RegB(state) \in 0 .. 14
      ELSE IF icode \in { PUSHQ, POPQ } THEN RegA(state) \in 0 .. 14
      ELSE TRUE

\* A byte address, and the address of an 8-byte access, outside
\* [0, MEMORY_SIZE).
BadByte(x) == LessBig(x, ZeroBig) \/ ~LessBig(x, NatToBig(MEMORY_SIZE))
BadQuad(x) ==
  LessBig(x, ZeroBig) \/ ~LessBig(AddBig(x, NatToBig(7)), NatToBig(MEMORY_SIZE))

\* Some access of the instruction at pc lies outside memory: the fetch of
\* its opcode, register byte or 8-byte operand, its memory operand, its
\* stack access, or its jump, call or return target.
OutsideMemory(state) ==
  LET pc == state.pc
      icode == OpcodeAt(state) \div 16
      operandAt == IF icode \in { IRMOVQ, RMMOVQ, MRMOVQ } THEN pc + 2
                   ELSE pc + 1
      operand == Word8(state.memory, operandAt)
      rsp == state.registers["rsp"]
      stackAddr == IF icode \in { CALL, PUSHQ }
                   THEN asIntN64(SubBig(rsp, NatToBig(8)))
                   ELSE rsp
  IN  \/ pc < 0
      \/ pc >= MEMORY_SIZE
      \/ /\ icode \in { RRMOVQ, IRMOVQ, RMMOVQ, MRMOVQ, OPQ, PUSHQ, POPQ }
         /\ pc + 1 >= MEMORY_SIZE
      \/ /\ icode \in { IRMOVQ, RMMOVQ, MRMOVQ, JXX, CALL }
         /\ operandAt + 7 >= MEMORY_SIZE
      \/ /\ icode \in { RMMOVQ, MRMOVQ }
         /\ BadQuad(asIntN64(AddBig(
              state.registers[REGISTER_KEYS[RegB(state) + 1]],
              asIntN64(operand))))
      \/ /\ icode \in { CALL, RET, PUSHQ, POPQ }
         /\ BadQuad(stackAddr)
      \/ /\ icode \in { JXX, CALL }
         /\ BadByte(operand)
      \/ /\ icode = RET
         /\ ~BadQuad(stackAddr)
         /\ BadByte(Word8(state.memory, BigToNat(stackAddr)))

RspAfterFailure(state) ==
  LET pc == state.pc
      icode == OpcodeAt(state) \div 16
      rsp == state.registers["rsp"]
  IN  IF pc < 0 \/ pc >= MEMORY_SIZE THEN rsp
      ELSE IF /\ icode = CALL
              /\ pc + 8 < MEMORY_SIZE
              /\ ~BadByte(Word8(state.memory, pc + 1))
           THEN asIntN64(SubBig(rsp, NatToBig(8)))
      ELSE IF icode = PUSHQ /\ pc + 1 < MEMORY_SIZE /\ RegA(state) \in 0 .. 14
           THEN asIntN64(SubBig(rsp, NatToBig(8)))
      ELSE IF icode = RET /\ ~BadQuad(rsp)
           THEN asIntN64(AddBig(rsp, NatToBig(8)))
      ELSE rsp

\* The entry records the state: its pc, status, registers and flags.
Records(entry, state) ==
  /\ entry.PC = state.pc
  /\ entry.STAT = state.stat
  /\ \A r \in RegisterSet : toBigInt(entry.REG[r]) = state.registers[r]
  /\ convertFlags(entry.CC) = state.conditionCodes

\* C15: a step that ends with ADR or INS leaves pc, memory and the flags
\* as they were, changes no register but the stack pointer that call,
\* pushq or ret had already moved, and the state it leaves is recorded,
\* with no memory word, as the last entry of the trace.
C15_FailedStep ==
  /\ [] /\ AtInstruction =>
             LET o == StepOnce(cpu.state)
             IN  o.state.stat \in { ADR, INS } =>
                   /\ o.state.pc = cpu.state.pc
                   /\ o.state.memory = cpu.state.memory
                   /\ o.state.conditionCodes = cpu.state.conditionCodes
                   /\ o.state.registers =
                        [cpu.state.registers EXCEPT
                           !["rsp"] = RspAfterFailure(cpu.state)]
                   /\ Records(o.entry, o.state)
                   /\ DOMAIN o.entry.MEM = { }
        /\ (cpu.state.stat \in { ADR, INS } /\ Len(cpu.trace) >= 2) =>
             /\ Records(After, cpu.state)
             /\ After.PC = Before.PC
             /\ After.CC = Before.CC
  /\ [][cpu.state.stat \notin { ADR, INS }]_vars

\* pushq has failed with ADR on a stack pointer of 0: the last entry has
\* the pc of the pushq and the stack pointer -8.
C15_Witness ==
  /\ Len(cpu.trace) >= 2
  /\ cpu.state.stat = ADR
  /\ After.STAT = ADR
  /\ After.PC = Before.PC
  /\ OpcodeAt(cpu.state) = Op(PUSHQ, 0)
  /\ toBigInt(Before.REG["rsp"]) = ZeroBig
  /\ toBigInt(After.REG["rsp"]) = NegBig(NatToBig(8))
  /\ cpu.state.registers["rsp"] = NegBig(NatToBig(8))

\* The condition a function code 0..6 names, on the flags.
ConditionTable(ifun, flags) ==
  CASE ifun = 0 -> TRUE
    [] ifun = 1 -> (flags.SF # flags.OF) \/ flags.ZF
    [] ifun = 2 -> flags.SF # flags.OF
    [] ifun = 3 -> flags.ZF
    [] ifun = 4 -> ~flags.ZF
    [] ifun = 5 -> flags.SF = flags.OF
    [] ifun = 6 -> ~flags.ZF /\ (flags.SF = flags.OF)

\* The loop is about to execute a jump with a function code 0..6 whose
\* destination can be fetched.
AtJump ==
  /\ AtInstruction
  /\ cpu.state.pc >= 0
  /\ cpu.state.pc + 8 < MEMORY_SIZE
  /\ OpcodeAt(cpu.state) \div 16 = JXX
  /\ OpcodeAt(cpu.state) % 16 \in 0 .. 6

\* C16: a conditional jump whose condition does not hold sets pc to pc + 9
\* and leaves the status AOK and the registers, flags and memory as they
\* were, whatever destination is encoded; one whose condition holds sets pc
\* to the destination.
C16_JumpNotTaken ==
  AtJump =>
    LET o == StepOnce(cpu.state)
        destination == Word8(cpu.state.memory, cpu.state.pc + 1)
    IN  IF ConditionTable(OpcodeAt(cpu.state) % 16, cpu.state.conditionCodes)
        THEN ~BadByte(destination) =>
               /\ o.state.stat = AOK
               /\ NatToBig(o.state.pc) = destination
        ELSE o.state = [cpu.state EXCEPT !.pc = cpu.state.pc + 9]

\* The state is about to execute the instruction of the code on register
\* number r.
AtStackOp(state, icode, r) ==
  /\ state.stat = AOK
  /\ state.pc >= 0
  /\ state.pc + 1 < MEMORY_SIZE
  /\ OpcodeAt(state) = Op(icode, 0)
  /\ RegA(state) = r

\* C17: for every register r, rsp included, when pushq r and then popq r
\* are executed one after the other and neither fails, the stack pointer
\* is the one before the pushq and r has the value it had before.
C17_PushPop ==
  \A r \in 0 .. 14 :
    (/\ cpu.steps + 1 < MAX_SIMULATION_STEPS
     /\ AtStackOp(cpu.state, PUSHQ, r)
     /\ StepOnce(cpu.state).state.stat = AOK
     /\ AtStackOp(StepOnce(cpu.state).state, POPQ, r)
     /\ StepOnce(StepOnce(cpu.state).state).state.stat = AOK)
    => LET end == StepOnce(StepOnce(cpu.state).state).state
       IN  /\ end.registers["rsp"] = cpu.state.registers["rsp"]
           /\ end.registers[REGISTER_KEYS[r + 1]] =
                cpu.state.registers[REGISTER_KEYS[r + 1]]

\* pushq %rsp and popq %rsp have run, neither failed, and the stack pointer
\* went down by 8 and came back.
C17_Witness ==
  /\ Len(cpu.trace) >= 3
  /\ cpu.state.stat = AOK
  /\ LET first == cpu.trace[Len(cpu.trace) - 2]
     IN  /\ MemRead(cpu.state.memory, first.PC) = Op(PUSHQ, 0)
         /\ MemRead(cpu.state.memory, first.PC + 1) \div 16 = 4
         /\ MemRead(cpu.state.memory, Before.PC) = Op(POPQ, 0)
         /\ MemRead(cpu.state.memory, Before.PC + 1) \div 16 = 4
         /\ Before.PC = first.PC + 2
         /\ toBigInt(Before.REG["rsp"]) =
              SubBig(toBigInt(first.REG["rsp"]), NatToBig(8))
         /\ After.REG["rsp"] = first.REG["rsp"]

\* The loop is about to execute a call that completes.
AtCall ==
  /\ AtInstruction
  /\ cpu.state.pc >= 0
  /\ cpu.state.pc < MEMORY_SIZE
  /\ OpcodeAt(cpu.state) = Op(CALL, 0)
  /\ StepOnce(cpu.state).state.stat = AOK
\* The state the call leaves is about to execute ret.
ThenRet ==
  /\ cpu.steps + 1 < MAX_SIMULATION_STEPS
  /\ OpcodeAt(StepOnce(cpu.state).state) = Op(RET, 0)
\* The return has brought pc to the byte after the call and the stack
\* pointer to its value before the call.
Resumed ==
  LET end == StepOnce(StepOnce(cpu.state).state).state
  IN  /\ end.stat = AOK
      /\ end.pc = cpu.state.pc + 9
      /\ end.registers["rsp"] = cpu.state.registers["rsp"]

\* C18: a call at p that completes stores p + 9 as an 8-byte value at the
\* new rsp = rsp - 8 and sets pc to its destination; a ret that completes
\* sets pc to the 8-byte value at rsp and rsp to rsp + 8; and a call at p
\* with p + 9 inside memory whose destination executes as ret resumes at
\* p + 9 with the stack pointer it had before the call.
C18_CallRet ==
  /\ AtCall =>
       LET o == StepOnce(cpu.state)
           rsp == asIntN64(SubBig(cpu.state.registers["rsp"], NatToBig(8)))
       IN  /\ o.state.registers = [cpu.state.registers EXCEPT !["rsp"] = rsp]
           /\ Word8(o.state.memory, BigToNat(rsp)) = NatToBig(cpu.state.pc + 9)
           /\ \A a \in (DOMAIN cpu.state.memory) \cup (DOMAIN o.state.memory) :
                (a < BigToNat(rsp) \/ a > BigToNat(rsp) + 7) =>
                  MemRead(o.state.memory, a) = MemRead(cpu.state.memory, a)
           /\ NatToBig(o.state.pc) = Word8(cpu.state.memory, cpu.state.pc + 1)
  /\ (/\ AtInstruction
      /\ cpu.state.pc >= 0
      /\ cpu.state.pc < MEMORY_SIZE
      /\ OpcodeAt(cpu.state) = Op(RET, 0)
      /\ StepOnce(cpu.state).state.stat = AOK)
     => LET o == StepOnce(cpu.state)
            rsp == cpu.state.registers["rsp"]
        IN  /\ NatToBig(o.state.pc) = Word8(cpu.state.memory, BigToNat(rsp))
            /\ o.state.registers =
                 [cpu.state.registers EXCEPT
                    !["rsp"] = asIntN64(AddBig(rsp, NatToBig(8)))]
            /\ o.state.memory = cpu.state.memory
  /\ (AtCall /\ ThenRet /\ cpu.state.pc + 9 < MEMORY_SIZE) => Resumed

\* call 0x20 at address 0 and the ret at 0x20 have run: pc is 9 and the
\* stack pointer is back.
C18_Witness ==
  /\ Len(cpu.trace) >= 3
  /\ cpu.state.stat = AOK
  /\ LET first == cpu.trace[Len(cpu.trace) - 2]
     IN  /\ MemRead(cpu.state.memory, first.PC) = Op(CALL, 0)
         /\ MemRead(cpu.state.memory, Before.PC) = Op(RET, 0)
         /\ Before.PC = 32
         /\ toBigInt(Before.REG["rsp"]) =
              SubBig(toBigInt(first.REG["rsp"]), NatToBig(8))
         /\ After.PC = first.PC + 9
         /\ After.REG["rsp"] = first.REG["rsp"]

\* C18 as it is worded: every call whose destination executes as ret
\* resumes at p + 9 with the stack pointer it had before the call.
C18_CallRetAlways ==
  (AtCall /\ ThenRet) => Resumed

\* The loop is about to execute a register move with a function code 0..6
\* between two registers.
AtMove ==
  /\ AtInstruction
  /\ cpu.state.pc >= 0
  /\ cpu.state.pc + 1 < MEMORY_SIZE
  /\ OpcodeAt(cpu.state) \div 16 = RRMOVQ
  /\ OpcodeAt(cpu.state) % 16 \in 0 .. 6
  /\ RegA(cpu.state) \in 0 .. 14
  /\ RegB(cpu.state) \in 0 .. 14

\* C19: for the function codes 0..6 a move and a jump act on the same
\* condition of the flags (0 always, 1 SF # OF or ZF, 2 SF # OF, 3 ZF,
\* 4 not ZF, 5 SF = OF, 6 not ZF and SF = OF): the move copies src to dst
\* iff it holds and adds 2 to pc either way, the jump goes to its
\* destination iff it holds.
C19_Conditions ==
  /\ AtMove =>
       LET holds == ConditionTable(OpcodeAt(cpu.state) % 16,
                                   cpu.state.conditionCodes)
       IN  StepOnce(cpu.state).state =
             [cpu.state EXCEPT
                !.registers[REGISTER_KEYS[RegB(cpu.state) + 1]] =
                   IF holds THEN SrcValue ELSE @,
                !.pc = cpu.state.pc + 2]
  /\ (AtJump /\ ~BadByte(Word8(cpu.state.memory, cpu.state.pc + 1))) =>
       LET holds == ConditionTable(OpcodeAt(cpu.state) % 16,
                                   cpu.state.conditionCodes)
       IN  StepOnce(cpu.state).state =
             [cpu.state EXCEPT
                !.pc = IF holds
                       THEN BigToNat(Word8(cpu.state.memory, cpu.state.pc + 1))
                       ELSE cpu.state.pc + 9]

\* cmovle %rax,%rcx has copied rax on ZF alone.
C19_Witness ==
  /\ Len(cpu.trace) >= 2
  /\ cpu.state.stat = AOK
  /\ MemRead(cpu.state.memory, Before.PC) = Op(RRMOVQ, CC_LE)
  /\ Before.CC = [ZF |-> 1, SF |-> 0, OF |-> 0]
  /\ toBigInt(Before.REG["rcx"]) = ZeroBig
  /\ toBigInt(Before.REG["rax"]) = MinInt64
  /\ cpu.state.registers["rcx"] = MinInt64
  /\ After.PC = Before.PC + 2

\* Bit k of a bigint, k = 0 the lowest.
Bit(x, k) == (x[(k \div 8) + 1] \div (2 ^ (k % 8))) % 2

\* C20: andq and xorq set dst to the AND / XOR of dst and src bit by bit,
\* OF to false, ZF iff the result is zero and SF iff bit 63 of the result
\* is set.
C20_AndqXorq ==
  \A ifun \in { ALU_AND, ALU_XOR } :
    AtOpq(ifun) =>
      LET r == executeInstruction(cpu.state, {})
          result == r.state.registers[REGISTER_KEYS[RegB(cpu.state) + 1]]
      IN  /\ r.err = 0
          /\ \A k \in 0 .. 63 :
               Bit(result, k) =
                 IF ifun = ALU_AND
                 THEN Bit(DstValue, k) * Bit(SrcValue, k)
                 ELSE (Bit(DstValue, k) + Bit(SrcValue, k)) % 2
          /\ result = asIntN64(result)
          /\ r.state.conditionCodes.OF = FALSE
          /\ r.state.conditionCodes.ZF = (\A k \in 0 .. 63 : Bit(result, k) = 0)
          /\ r.state.conditionCodes.SF = (Bit(result, 63) = 1)

\* andq %rax,%rcx has run on -1 and -2^63 and left -2^63 with SF alone.
C20_Witness ==
  /\ Len(cpu.trace) >= 2
  /\ cpu.state.stat = AOK
  /\ MemRead(cpu.state.memory, Before.PC) = Op(OPQ, ALU_AND)
  /\ MemRead(cpu.state.memory, Before.PC + 1) = Regs(0, 1)
  /\ toBigInt(Before.REG["rax"]) = NegBig(NatToBig(1))
  /\ toBigInt(Before.REG["rcx"]) = MinInt64
  /\ cpu.state.registers["rcx"] = MinInt64
  /\ cpu.state.conditionCodes = [ZF |-> FALSE, SF |-> TRUE, OF |-> FALSE]

\* The exploration started from the halt-only program.
HaltOnly == cpu.trace[1] = Machine(CHOOSE case \in HaltCases : TRUE).trace[1]

\* C21: halt at address p sets the status to HLT and pc to p + 1 and
\* changes nothing else, the entry of that state is the last of the trace,
\* and the program that is one halt byte at address 0 gives exactly two
\* entries: the initial state, then status HLT with pc = 1.
C21_Halt ==
  /\ [] /\ (/\ AtInstruction
            /\ cpu.state.pc >= 0
            /\ cpu.state.pc < MEMORY_SIZE
            /\ OpcodeAt(cpu.state) = Op(HALT, 0))
           => LET o == StepOnce(cpu.state)
              IN  /\ o.state = [cpu.state EXCEPT !.stat = HLT,
                                                 !.pc = cpu.state.pc + 1]
                  /\ Records(o.entry, o.state)
                  /\ DOMAIN o.entry.MEM = { }
        /\ (cpu.state.stat = HLT /\ Len(cpu.trace) >= 2) =>
             Records(After, cpu.state)
        /\ HaltOnly =>
             /\ Len(cpu.trace) <= 2
             /\ cpu.trace[1].PC = 0
             /\ cpu.trace[1].STAT = AOK
             /\ Len(cpu.trace) = 2 => (After.STAT = HLT /\ After.PC = 1)
             /\ Len(cpu.trace) = 1 => ENABLED Execute
  /\ [][cpu.state.stat # HLT]_vars
  /\ [] (LET trace == simulateYoProgram(ProgHalt).trace
         IN  /\ Len(trace) = 2
             /\ trace[1].PC = 0 /\ trace[1].STAT = AOK
             /\ trace[2].PC = 1 /\ trace[2].STAT = HLT
             /\ trace[2].REG = trace[1].REG
             /\ trace[2].CC = trace[1].CC)

\* The halt-only program has run: two entries, the second with status HLT
\* and pc = 1.
C21_Witness ==
  /\ HaltOnly
  /\ Len(cpu.trace) = 2
  /\ cpu.state.stat = HLT
  /\ cpu.state.pc = 1
  /\ After.STAT = HLT
  /\ After.PC = 1

\* C22: in entry 0 of the trace of a loaded program, and in the session
\* right after the load, the flags are ZF true, SF false, OF false, every
\* register but rsp is zero and rsp is the memory size.
C22_InitialEntry ==
  cpu.trace # << >> =>
    /\ convertFlags(cpu.trace[1].CC) = [ZF |-> TRUE, SF |-> FALSE, OF |-> FALSE]
    /\ \A r \in RegisterSet :
         toBigInt(cpu.trace[1].REG[r]) =
           IF r = "rsp" THEN NatToBig(MEMORY_SIZE) ELSE ZeroBig
    /\ (cpu.currentIndex = 0 /\ Len(cpu.executionHistory) = 1) =>
         /\ cpu.state.conditionCodes =
              [ZF |-> TRUE, SF |-> FALSE, OF |-> FALSE]
         /\ \A r \in RegisterSet :
              cpu.state.registers[r] =
                IF r = "rsp" THEN NatToBig(MEMORY_SIZE) ELSE ZeroBig

\* What a text says: its records (the lines with an address and data), the
\* address of a record, its number of bytes and its byte number j.
TextRecords(text) ==
  { k \in 1 .. Len(text) : text[k].address # << >> /\ text[k].runs # << >> }
RecordAddress(text, k) ==
  LET d == text[k].address
  IN  4096 * d[1] + 256 * d[2] + 16 * d[3] + d[4]
RecordLength(text, k) == (Len(text[k].runs[1]) + 1) \div 2
RecordByte(text, k, j) ==
  LET d == text[k].runs[1]
  IN  IF 2 * j <= Len(d) THEN 16 * d[2 * j - 1] + d[2 * j] ELSE d[2 * j - 1]
\* The least of the records' addresses.
MinAddress(text) ==
  CHOOSE m \in { RecordAddress(text, k) : k \in TextRecords(text) } :
    \A k \in TextRecords(text) : m <= RecordAddress(text, k)
\* The addresses the records cover, and the byte the text puts at an
\* address: that of the last record covering it, 0 where none does.
Covered(text) ==
  UNION { RecordAddress(text, k) ..
            (RecordAddress(text, k) + RecordLength(text, k) - 1) :
          k \in TextRecords(text) }
ImageByte(text, a) ==
  LET covering == { k \in TextRecords(text) :
                      /\ RecordAddress(text, k) <= a
                      /\ a < RecordAddress(text, k) + RecordLength(text, k) }
  IN  IF covering = { } THEN 0
      ELSE LET k == CHOOSE x \in covering : \A y \in covering : y <= x
           IN  RecordByte(text, k, a - RecordAddress(text, k) + 1)
\* The memory is the image of the text.
IsImage(memory, text) ==
  \A a \in (DOMAIN memory) \cup Covered(text) :
    MemRead(memory, a) = ImageByte(text, a)
\* The session is as loadProgram left it.
JustLoaded == cpu.currentIndex = 0 /\ Len(cpu.executionHistory) = 1

\* C23: after a successful load the pc of entry 0, and of the session, is
\* the least address of the records of the text, in whatever order they
\* come, and memory holds each byte of each record at the record's address
\* plus the byte's index and zero everywhere else.
C23_EntryPointAndImage ==
  \A p \in Programs :
    LoadedFrom(p) =>
      /\ cpu.trace[1].PC = MinAddress(p)
      /\ parseYoProgram(p).entryPoint = MinAddress(p)
      /\ IsImage(parseYoProgram(p).memory, p)
      /\ JustLoaded =>
           /\ cpu.state.pc = MinAddress(p)
           /\ IsImage(cpu.state.memory, p)

\* The text whose records come at 0x012 and then 0x010 has just been
\* loaded: pc is 0x010.
C23_Witness ==
  /\ LoadedFrom(ProgEntry)
  /\ JustLoaded
  /\ cpu.state.pc = 16
  /\ MemRead(cpu.state.memory, 16) = 16
  /\ MemRead(cpu.state.memory, 17) = 16

\* The session shows no program: no trace, cursor -1, the initial state
\* with all-zero memory, no snapshot, not running.
Unloaded(c) ==
  /\ c.trace = << >>
  /\ c.currentIndex = -1
  /\ c.state = createInitialState
  /\ c.state.memory = EmptyMemory
  /\ c.executionHistory = << >>
  /\ ~c.running
  /\ ~hasNextStep(c)
\* The texts with a record address, or a byte target, at or above the
\* memory size.
Overflowing ==
  { p \in Programs :
      \E k \in TextRecords(p) :
        RecordAddress(p, k) + RecordLength(p, k) - 1 >= MEMORY_SIZE }

\* C24: from any state of the session, loadProgram of a text with a record
\* address or a byte target at or above 32768 returns false and leaves the
\* session Unloaded, with nothing of that text or of the program loaded
\* before; the breakpoints are as they were.
C24_FailedLoad ==
  \A p \in Overflowing, now \in Readings :
    \E r \in { loadProgram(cpu, p, now) } :
      /\ ~r.ret
      /\ Unloaded(r.cpu)
      /\ r.cpu.breakpoints = cpu.breakpoints

\* A program has been loaded and stepped, and both kinds of overflowing
\* text are about to fail.
C24_Witness ==
  /\ cpu.currentIndex > 0
  /\ Len(cpu.executionHistory) > 1
  /\ cpu.state.memory # EmptyMemory
  /\ { ProgBadAddr, ProgBadTarget } \subseteq Overflowing
  /\ \A p \in Overflowing : ~loadProgram(cpu, p, 0).ret

\* The sample programs that fault, and the status each stops with: a call
\* to 0x8000 leaves no instruction to fetch, and the opcode byte c0 is no
\* instruction.
Faulting == { ProgCallAdr, ProgIns }
FaultOf(p) == IF p = ProgCallAdr THEN ADR ELSE INS
\* The cursor is on the last entry of the trace.
AtLastEntry == cpu.trace # << >> /\ cpu.currentIndex = Len(cpu.trace) - 1

\* C25: a program that stops with ADR or INS loads: from any state of the
\* session loadProgram returns true and the last entry of the trace has
\* that status; with the cursor on that entry isRunning() is false and
\* step() returns false and changes nothing.
C25_FaultingProgramLoads ==
  \A p \in Faulting :
    /\ \A now \in Readings :
         \E r \in { loadProgram(cpu, p, now) } :
           /\ r.ret
           /\ r.cpu.trace[Len(r.cpu.trace)].STAT = FaultOf(p)
           /\ \A k \in 1 .. Len(r.cpu.trace) - 1 : r.cpu.trace[k].STAT = AOK
           /\ r.cpu.currentIndex = 0
    /\ (LoadedFrom(p) /\ AtLastEntry) =>
         /\ ~cpu.running
         /\ \A now \in Readings :
              \E r \in { step(cpu, now) } : ~r.ret /\ r.cpu = cpu

\* The program ending in INS has been replayed to its last entry, whose
\* status the session shows.
C25_Witness ==
  /\ LoadedFrom(ProgIns)
  /\ AtLastEntry
  /\ cpu.state.stat = INS
  /\ cpu.currentIndex >= 2

\* The session without its breakpoints, which a load keeps.
Program(c) == [c EXCEPT !.breakpoints = NoBreakpoints]

\* C26: the trace depends on the text alone: loadProgram(x) from any state
\* of the session, directly or after reset(), gives the trace, the cursor
\* and the architectural state at cursor 0 that it gives on a new
\* instance.
C26_LoadDependsOnTextOnly ==
  \A p \in Loadable, now \in Readings :
    \E fresh \in { loadProgram(NewCPU, p, now) } :
      \A from \in { cpu, reset(cpu) } :
        \E r \in { loadProgram(from, p, now) } :
          /\ r.ret = fresh.ret
          /\ r.cpu.trace = fresh.cpu.trace
          /\ r.cpu.currentIndex = 0
          /\ r.cpu.state = fresh.cpu.state
          /\ Program(r.cpu) = fresh.cpu

\* A longer program has been loaded and stepped, with a breakpoint set,
\* and it left bytes where the shorter program about to be loaded has
\* none.
C26_Witness ==
  /\ LoadedFrom(ProgArith)
  /\ cpu.currentIndex > 0
  /\ cpu.breakpoints # NoBreakpoints
  /\ MemRead(cpu.state.memory, 10) # 0
  /\ MemRead(loadProgram(cpu, ProgHalt, 0).cpu.state.memory, 10) = 0

\* A live interval fires and its callback calls step().
TimerSteps ==
  /\ cpu.intervals # {}
  /\ cpu.session.running
  /\ \E now \in PageReadings : cpu' = intervalCallback(cpu, now)

\* C27: once pause has been invoked, no interval calls step() until run,
\* step or continue is invoked, in whatever order run, pause, continue and
\* the ticks come.
C27_NoStepAfterPause == [][cpu.paused => ~TimerSteps]_vars

\* The name of a status code.
NameOfStatus(code) ==
  CASE code = 1 -> "AOK" [] code = 2 -> "HLT" [] code = 3 -> "ADR"
    [] code = 4 -> "INS"

\* C30: each record of the exported history carries the name (AOK, HLT,
\* ADR or INS) of the status code of the snapshot it is made from.
C30_ExportedStatusNames ==
  /\ Len(handleExportHistory(cpu)) = Len(cpu.executionHistory)
  /\ \A k \in 1 .. Len(cpu.executionHistory) :
       handleExportHistory(cpu)[k].stat =
         NameOfStatus(cpu.executionHistory[k].stat)

\* The history after is the history before and one more snapshot, of the
\* given cycle.
OneAppended(before, after, cycle) ==
  /\ Len(after) = Len(before) + 1
  /\ SubSeq(after, 1, Len(before)) = before
  /\ after[Len(after)].cycle = cycle

\* C28: a load that succeeds leaves exactly one snapshot, of cycle 0; a
\* step() that moves the cursor appends exactly one snapshot, whose cycle
\* is the new cursor, and one that does not move it appends none; step,
\* restoreSnapshot, continueFromBreakpoint and the breakpoint operations
\* leave the snapshots already taken as they are; reset and a load, failed
\* or not, discard them all.
C28_SnapshotHistory ==
  LET history == cpu.executionHistory
  IN  /\ \A p \in Programs, now \in Readings :
           \E r \in { loadProgram(cpu, p, now) } :
             IF r.ret
             THEN OneAppended(<< >>, r.cpu.executionHistory, 0)
             ELSE r.cpu.executionHistory = << >>
      /\ reset(cpu).executionHistory = << >>
      /\ \A now \in Readings :
           \E r \in { step(cpu, now) } :
             IF r.cpu.currentIndex # cpu.currentIndex
             THEN /\ r.cpu.currentIndex = cpu.currentIndex + 1
                  /\ OneAppended(history, r.cpu.executionHistory,
                                 r.cpu.currentIndex)
             ELSE r.cpu.executionHistory = history
      /\ \A id \in SnapshotIds :
           restoreSnapshot(cpu, id).cpu.executionHistory = history
      /\ continueFromBreakpoint(cpu).executionHistory = history
      /\ clearAllBreakpoints(cpu).executionHistory = history
      /\ \A a \in BreakpointAddresses :
           /\ removeBreakpoint(cpu, a).cpu.executionHistory = history
           /\ toggleBreakpoint(cpu, a).cpu.executionHistory = history
           /\ \A cond \in SessionConditions :
                addBreakpoint(cpu, a, cond).executionHistory = history

\* A session restored to an earlier cycle and stepped again: the history
\* holds two snapshots of one cycle, and more snapshots than the cursor
\* has cycles behind it.
C28_Witness ==
  /\ cpu.running
  /\ Len(cpu.executionHistory) > cpu.currentIndex + 1
  /\ \E j, k \in 1 .. Len(cpu.executionHistory) :
       /\ j < k
       /\ cpu.executionHistory[j].cycle = cpu.executionHistory[k].cycle
       /\ cpu.executionHistory[k].cycle = cpu.currentIndex

\* C29: the flags change only when an ALU instruction executes: every
\* other instruction, an instruction that fails and the forced end of the
\* run leave ZF, SF and OF, in the state and in the entry pushed, as they
\* were.
C29_FlagsOnlyByAlu ==
  /\ [] (AtInstruction =>
           \E o \in { StepOnce(cpu.state) } :
             /\ convertFlags(o.entry.CC) = o.state.conditionCodes
             /\ (o.state.conditionCodes # cpu.state.conditionCodes =>
                   /\ OpcodeAt(cpu.state) \div 16 = OPQ
                   /\ OpcodeAt(cpu.state) % 16 \in DefinedFunctions(OPQ)
                   /\ o.state.stat = AOK))
  /\ [][ /\ cpu'.state.conditionCodes # cpu.state.conditionCodes =>
              OpcodeAt(cpu.state) \div 16 = OPQ
         /\ cpu'.trace[Len(cpu'.trace)].CC # cpu.trace[Len(cpu.trace)].CC =>
              OpcodeAt(cpu.state) \div 16 = OPQ ]_vars

\* A popq has executed with SF and OF set before it, placing a negative
\* value in %rcx: the flags are as they were.
C29_Witness ==
  /\ Len(cpu.trace) >= 3
  /\ After.STAT = AOK
  /\ After.CC = [ZF |-> 0, SF |-> 1, OF |-> 1]
  /\ Before.CC = After.CC
  /\ After.PC = 4
  /\ toBigInt(After.REG["rcx"]) = MinInt64
  /\ toBigInt(Before.REG["rcx"]) = ZeroBig

\* The digits of the runs of a line, one after the other, and the text
\* whose lines have their pairs written contiguously.
RECURSIVE Concatenated(_)
Concatenated(runs) ==
  IF runs = << >> THEN << >> ELSE Head(runs) \o Concatenated(Tail(runs))
Contiguous(text) ==
  [k \in 1 .. Len(text) |->
     [address |-> text[k].address,
      runs |-> IF text[k].runs = << >> THEN << >>
               ELSE << Concatenated(text[k].runs) >>]]

\* C31: byte pairs separated by white space load as the same pairs
\* written contiguously do: the memory after the load is the same.
C31_WhitespaceBetweenPairs ==
  \A p \in Programs :
    (LoadedFrom(p) /\ JustLoaded) =>
      /\ ~parseYoProgram(Contiguous(p)).thrown
      /\ cpu.state.memory = parseYoProgram(Contiguous(p)).memory

\* C32: in the trace simulateYoProgram builds every entry but the last has
\* status AOK and the last entry has the status of the state; when the
\* loop has ended that status is HLT, ADR or INS; and every instruction
\* executed, and the forced end, start from a state whose status is AOK.
C32_OnlyAokContinues ==
  /\ [] /\ \A k \in 1 .. Len(cpu.trace) - 1 : cpu.trace[k].STAT = AOK
        /\ cpu.trace[Len(cpu.trace)].STAT = cpu.state.stat
        /\ cpu.state.stat \in { AOK, HLT, ADR, INS }
        /\ ~ENABLED NextExec => cpu.state.stat \in { HLT, ADR, INS }
        /\ cpu.state.stat = AOK => ENABLED NextExec
  /\ [][ /\ cpu.state.stat = AOK
         /\ cpu.trace[Len(cpu.trace)].STAT = AOK
         /\ Len(cpu'.trace) = Len(cpu.trace) + 1
         /\ SubSeq(cpu'.trace, 1, Len(cpu.trace)) = cpu.trace ]_vars

\* Two instructions have completed and the third has ended the run with
\* INS or ADR before the step limit forced an end.
C32_Witness ==
  /\ Len(cpu.trace) = 4
  /\ cpu.steps = 3
  /\ After.STAT \in { ADR, INS }
  /\ Before.STAT = AOK
  /\ ~ENABLED NextExec

\* The interpreter's state after k instructions from a state: an
\* instruction that throws leaves its status, and nothing is executed from
\* a status other than AOK or past the step limit.
RECURSIVE InterpretedAfter(_, _)
InterpretedAfter(state, k) ==
  IF k = 0 THEN state
  ELSE Let(InterpretedAfter(state, k - 1),
           LAMBDA before :
             IF before.stat # AOK \/ k > MAX_SIMULATION_STEPS THEN before
             ELSE Let(executeInstruction(before, {}),
                      LAMBDA r :
                        IF r.err # 0 THEN [r.state EXCEPT !.stat = r.err]
                        ELSE r.state))
InterpretedStates ==
  [p \in Loadable |->
     [k \in 0 .. MAX_SIMULATION_STEPS + 1 |->
        InterpretedAfter(InitialSimulationState(parseYoProgram(p)), k)]]

\* C33: after a load, whatever steps, restores, continues and breakpoint
\* operations follow, with the cursor at k the session's pc, registers,
\* flags and whole memory are those of the interpreter after k
\* instructions; and only reset and loadProgram change the trace.
C33_ReplayIsInterpreter ==
  /\ [] \A p \in Loadable :
          LoadedFrom(p) =>
            \E direct \in { InterpretedStates[p][cpu.currentIndex] } :
              /\ cpu.state.pc = direct.pc
              /\ cpu.state.registers = direct.registers
              /\ cpu.state.conditionCodes = direct.conditionCodes
              /\ cpu.state.memory = direct.memory
  /\ [][ \/ cpu'.trace = cpu.trace
         \/ cpu' = reset(cpu)
         \/ \E p \in SessionPrograms, now \in Readings :
              cpu' = loadProgram(cpu, p, now).cpu ]_vars

\* The program that pushes has been replayed past the push, restored to an
\* earlier cycle and stepped past the push again, with a breakpoint held:
\* the value pushed is in memory at the top of the stack, after the
\* program's own bytes.
C33_Witness ==
  /\ LoadedFrom(ProgStack)
  /\ cpu.currentIndex = 2
  /\ Len(cpu.executionHistory) > 3
  /\ cpu.breakpoints # NoBreakpoints
  /\ MemRead(cpu.state.memory, MEMORY_SIZE - 8) = 3
  /\ MemRead(cpu.state.memory, 10) = 160

\* C34: every register of the state, and of every entry of the trace, is
\* in [-2^63, 2^63 - 1], whatever the program executes.
C34_RegistersAreInt64 ==
  /\ \A r \in RegisterSet : ~OutOfInt64(cpu.state.registers[r])
  /\ \A k \in 1 .. Len(cpu.trace) :
       \A r \in RegisterSet : ~OutOfInt64(toBigInt(cpu.trace[k].REG[r]))
  /\ AtInstruction =>
       \A r \in RegisterSet :
         ~OutOfInt64(StepOnce(cpu.state).state.registers[r])

\* pushq has run on a stack pointer of -2^63: the stack pointer wrapped to
\* 2^63 - 8, and the value before it is in the trace.
C34_Witness ==
  /\ Len(cpu.trace) >= 2
  /\ toBigInt(Before.REG["rsp"]) = MinInt64
  /\ toBigInt(After.REG["rsp"]) = AddBig(MaxInt64, NegBig(NatToBig(7)))
  /\ cpu.state.registers["rsp"] = AddBig(MaxInt64, NegBig(NatToBig(7)))

\* C35: the trace the simulator produces for a text begins with an entry
\* of status AOK, so loadProgram never reverses it: the session holds the
\* entries in the order they were produced, and entry 0 is the state
\* before the first instruction.
C35_NeverReversed ==
  /\ cpu.trace # << >> => cpu.trace[1].STAT = AOK
  /\ \A p \in Loadable, now \in Readings :
       \E r \in { loadProgram(cpu, p, now) } :
         /\ RemoteResult[p].trace[1].STAT = AOK
         /\ r.ret
         /\ r.cpu.trace = RemoteResult[p].trace
         /\ r.cpu.trace[1].PC = MinAddress(p)
         /\ r.cpu.trace[1].STAT = AOK
         /\ r.cpu.state.stat = AOK

\* A text whose run ends in INS has just been loaded: its trace has more
\* than one entry, the last is not AOK, and the session shows entry 0.
C35_Witness ==
  /\ LoadedFrom(ProgIns)
  /\ JustLoaded
  /\ Len(cpu.trace) > 1
  /\ cpu.trace[Len(cpu.trace)].STAT = INS
  /\ cpu.trace[1].STAT = AOK
  /\ cpu.state.stat = AOK
  /\ cpu.state.pc = 0

\* C36: whenever isRunning() is true the status the session shows is AOK
\* and the cursor is before the last entry of the trace.
C36_RunningMeansAokAndMore ==
  cpu.running =>
    /\ cpu.state.stat = AOK
    /\ cpu.trace # << >>
    /\ cpu.currentIndex >= 0
    /\ cpu.currentIndex < Len(cpu.trace) - 1

\* A session that a breakpoint paused and continueFromBreakpoint resumed,
\* running again in the middle of its trace.
C36_Witness ==
  /\ cpu.running
  /\ cpu.currentIndex > 0
  /\ cpu.lastBreakpointHit = << >>
  /\ cpu.state.pc \in DOMAIN cpu.breakpoints
  /\ cpu.breakpoints[cpu.state.pc].hitCount = 1
  /\ Len(cpu.executionHistory) = cpu.currentIndex + 1

\* C37: with a trace loaded the cursor is an index of the trace and the
\* cycle counter equals it; with no trace the cursor is -1 and the cycle
\* counter 0.
C37_CursorAndCycle ==
  IF cpu.trace = << >>
  THEN /\ cpu.currentIndex = -1
       /\ cpu.state.cycle = 0
  ELSE /\ cpu.currentIndex \in 0 .. Len(cpu.trace) - 1
       /\ cpu.state.cycle = cpu.currentIndex

\* A session stepped to its third cycle or further and restored to cycle 1.
C37_Witness ==
  /\ cpu.trace # << >>
  /\ cpu.currentIndex = 1
  /\ cpu.state.cycle = 1
  /\ Len(cpu.executionHistory) >= 4
  /\ cpu.executionHistory[Len(cpu.executionHistory)].cycle >= 3

\* The status of the trace entry at the cursor.
EntryStatus(c) == STATUS_MAP(c.trace[c.currentIndex + 1].STAT)
\* The step taken is a continueFromBreakpoint that resumed, a
\* restoreSnapshot that found its snapshot, or a step() on which no
\* breakpoint fired.
ByContinue ==
  cpu.lastBreakpointHit # << >> /\ cpu' = continueFromBreakpoint(cpu)
ByRestore ==
  \E id \in SnapshotIds :
    restoreSnapshot(cpu, id).ret /\ cpu' = restoreSnapshot(cpu, id).cpu
ByQuietStep ==
  \E now \in Readings :
    /\ hasNextStep(cpu)
    /\ ~step(cpu, now).hit
    /\ cpu' = step(cpu, now).cpu

\* C38: after a load, when the last of step, restoreSnapshot and
\* continueFromBreakpoint was not a step on which a breakpoint fired, the
\* status shown is the status of the trace entry at the cursor.
C38_StatusOfEntryAtCursor ==
  [][ (cpu.trace # << >> /\ (ByContinue \/ ByRestore \/ ByQuietStep)) =>
        cpu'.state.stat = EntryStatus(cpu') ]_vars

\* The session once every call in flight has resumed.
RECURSIVE AllResumed(_, _)
AllResumed(c, pending) ==
  IF pending = << >> THEN c
  ELSE AllResumed(loadProgramResume(c, RemoteResult[Head(pending)], 0).cpu,
                  Tail(pending))

\* C39: when loadProgram(B) is called before loadProgram(A) has resumed,
\* then once both have resumed the trace, cursor, state and snapshot
\* history are those a single loadProgram(B) leaves on a new instance.
C39_OverlappingLoads ==
  Len(cpu.pending) = 2 =>
    \E after \in { AllResumed(cpu.session, cpu.pending) },
       single \in { loadProgram(NewCPU, cpu.pending[2], 0).cpu } :
      /\ after.trace = single.trace
      /\ after.currentIndex = single.currentIndex
      /\ after.state = single.state
      /\ after.executionHistory = single.executionHistory

\* C40: after a load from the page has succeeded the cursor stays at
\* entry 0 until step, run or continue is invoked: no interval started
\* before the load advances the program loaded.
C40_LoadedProgramWaits ==
  cpu.fresh =>
    /\ cpu.session.currentIndex = 0
    /\ cpu.cycle = 0
=============================================================================
